---- MODULE Spec2Model ----
(***************************************************************************)
(* Decentralized security protocol: the agreement engine.                  *)
(*                                                                         *)
(*   network/consensus.py        Consensus (vote table, quorum, schemes)   *)
(*   network/gossip_protocol.py  GossipProtocol (dedup cache, fan-out)     *)
(*   network/message.py          Message (id, signing payload)             *)
(*   agents/crypto_utils.py      sign_message / verify_signature           *)
(*   agents/base_agent.py        BaseAgent (handlers, reputation, rules)   *)
(*                                                                         *)
(* Python objects are records, dicts are functions whose DOMAIN is the set *)
(* of keys, lists are sequences.  A float ratio a / b is kept as the pair  *)
(* <<a, b>>; comparisons of ratios are done by cross multiplication.       *)
(***************************************************************************)
EXTENDS Integers, Sequences, FiniteSets, TLC

VARIABLES
    consensus,   \* the Consensus object: consensus_type, votes, rule_status
    clast,       \* the most recent Consensus call: its arguments and its return value
    agent,       \* agent_id -> the BaseAgent object
    gossip,      \* the GossipProtocol object
    heap,        \* the rule dicts, by reference
    forwarded,   \* the dicts transport.broadcast_to_network has sent, in order
    now,         \* time.time(), in whole seconds
    recv,        \* <<agent_id, message_id>> -> number of receive_message invocations so far
    glast,       \* the most recent agent / gossip call: what it was and the calls it made
    ncalls,      \* number of agent / gossip calls made so far
    threads,     \* connection thread -> where it is in _handle_client and what it carries
    cache_lock,  \* gossip.cache_lock: "free" or the thread that holds it
    engine,      \* the RuleEngine object: rules, active_rules
    elast,       \* the most recent RuleEngine / apply_rule call and what it returned
    crypto,      \* the arguments of a sign_message / verify_signature call and its outcome
    wire,        \* a Message object and what to_dict / from_dict have made of it
    nodes,       \* node -> the agents, GossipProtocol and rule dicts of another process
    service      \* the background loops: the running flags and where each loop is

consensus_vars == <<consensus, clast>>

thread_vars == <<threads, cache_lock>>

engine_vars == <<engine, elast>>

network_vars ==
    <<agent, gossip, heap, forwarded, now, recv, glast, ncalls, threads, cache_lock>>

vars ==
    <<consensus, clast, agent, gossip, heap, forwarded, now, recv, glast, ncalls,
      threads, cache_lock, engine, elast, crypto, wire,
      nodes, service>>

(***************************************************************************)
(* Small universes the inputs are drawn from.                              *)
(***************************************************************************)
Voters == {"A", "B", "C"}

RuleIds == {"r1", "r2"}

VoteChoices == {"APPROVE", "REJECT"}

ConsensusTypes == {"MAJORITY", "UNANIMOUS", "WEIGHTED"}

\* reputation weights a caller passes to register_vote
Reputations == {0, 10, 90}

\* largest total_agents passed to check_consensus
MaxTotal == 5

\* a dict with no keys
EmptyDict == [k \in {} |-> 0]

\* d with d[k] = v stored (insert or overwrite), other keys untouched
DictSet(d, k, v) == [x \in (DOMAIN d) \cup {k} |-> IF x = k THEN v ELSE d[x]]

\* the optional argument reputation=None of register_vote
NoneArg == [given |-> FALSE, value |-> 0]

Given(v) == [given |-> TRUE, value |-> v]

RECURSIVE SumOver(_, _)
\* sum of f[x] over the finite set S
SumOver(f, S) ==
    IF S = {} THEN 0
    ELSE LET x == CHOOSE y \in S : TRUE IN f[x] + SumOver(f, S \ {x})

(***************************************************************************)
(* network/consensus.py                                                    *)
(***************************************************************************)
\* the weight recorded when register_vote is called without a reputation
DefaultReputation == 50

\* the quorum factor 0.67 of check_consensus, in hundredths
QuorumPercent == 67

\* Consensus.__init__
ConsensusInit(consensus_type) ==
    [consensus_type |-> consensus_type, votes |-> EmptyDict, rule_status |-> EmptyDict]

\* register_vote that forgets the rule's other votes (re-creates the rule's dict on every call)
register_vote_reset(cs, rule_id, agent_id, vote, reputation) ==
    LET entry == [vote |-> vote,
                  reputation |-> IF reputation.given THEN reputation.value
                                 ELSE DefaultReputation]
    IN  [cs EXCEPT !.votes = DictSet(@, rule_id, DictSet(EmptyDict, agent_id, entry)),
                   !.rule_status = IF rule_id \in DOMAIN cs.votes THEN @
                                   ELSE DictSet(@, rule_id, "VOTING")]

\* Consensus.register_vote: the Consensus object after the call
register_vote(cs, rule_id, agent_id, vote, reputation) ==
    LET known == rule_id \in DOMAIN cs.votes
        old   == IF known THEN cs.votes[rule_id] ELSE EmptyDict
        entry == [vote |-> vote,
                  reputation |-> IF reputation.given THEN reputation.value
                                 ELSE DefaultReputation]
    IN  [cs EXCEPT !.votes = DictSet(@, rule_id, DictSet(old, agent_id, entry)),
                   !.rule_status = IF known THEN @ ELSE DictSet(@, rule_id, "VOTING")]

\* the voters of `votes` that voted APPROVE
Approvers(votes) == {a \in DOMAIN votes : votes[a].vote = "APPROVE"}

\* the test `len(votes) >= total_agents * 0.67` of check_consensus
QuorumReached(votes, total_agents) ==
    Cardinality(DOMAIN votes) * 100 >= total_agents * QuorumPercent

\* majority decided with `>=` instead of `>`
MajorityApprovedTie(approve_count, vote_count) == 2 * approve_count >= vote_count

\* the test `consensus_ratio > 0.5` of _check_majority_consensus
MajorityApproved(approve_count, vote_count) == 2 * approve_count > vote_count

\* Consensus._check_majority_consensus
check_majority_consensus(cs, rule_id, votes) ==
    LET approve_count == Cardinality(Approvers(votes))
        vote_count    == Cardinality(DOMAIN votes)
        status == IF MajorityApproved(approve_count, vote_count)
                  THEN "APPROVED" ELSE "REJECTED"
    IN  [cs |-> [cs EXCEPT !.rule_status = DictSet(@, rule_id, status)],
         status |-> status,
         ratio |-> <<approve_count, vote_count>>]

\* unanimity decided by "no more than one REJECT"
UnanimousApprovedButOne(approve_count, vote_count) == approve_count + 1 >= vote_count

\* the test `consensus_ratio == 1.0` of _check_unanimous_consensus
UnanimousApproved(approve_count, vote_count) == approve_count = vote_count

\* Consensus._check_unanimous_consensus
check_unanimous_consensus(cs, rule_id, votes) ==
    LET approve_count == Cardinality(Approvers(votes))
        vote_count    == Cardinality(DOMAIN votes)
        status == IF UnanimousApproved(approve_count, vote_count)
                  THEN "APPROVED" ELSE "REJECTED"
    IN  [cs |-> [cs EXCEPT !.rule_status = DictSet(@, rule_id, status)],
         status |-> status,
         ratio |-> <<approve_count, vote_count>>]

\* the weighted tally that counts heads instead of weights
WeightedRatioHeads(votes) ==
    <<Cardinality(Approvers(votes)), Cardinality(DOMAIN votes)>>

\* `approve_weight / total_weight if total_weight > 0 else 0` of _check_weighted_consensus
WeightedRatio(votes) ==
    LET w == [a \in DOMAIN votes |-> votes[a].reputation]
        total_weight   == SumOver(w, DOMAIN votes)
        approve_weight == SumOver(w, Approvers(votes))
    IN  IF total_weight > 0 THEN <<approve_weight, total_weight>> ELSE <<0, 1>>

\* Consensus._check_weighted_consensus
check_weighted_consensus(cs, rule_id, votes) ==
    LET consensus_ratio == WeightedRatio(votes)
        status == IF 2 * consensus_ratio[1] > consensus_ratio[2]
                  THEN "APPROVED" ELSE "REJECTED"
    IN  [cs |-> [cs EXCEPT !.rule_status = DictSet(@, rule_id, status)],
         status |-> status,
         ratio |-> consensus_ratio]

\* a coordinator that keeps a decision once it has made one
check_consensus_frozen(cs, rule_id, total_agents) ==
    IF rule_id \notin DOMAIN cs.votes
    THEN [cs |-> cs, status |-> "PENDING", ratio |-> <<0, 1>>]
    ELSE LET votes == cs.votes[rule_id] IN
         IF cs.rule_status[rule_id] \in {"APPROVED", "REJECTED"}
         THEN [cs |-> cs, status |-> cs.rule_status[rule_id],
               ratio |-> <<Cardinality(Approvers(votes)), Cardinality(DOMAIN votes)>>]
         ELSE IF QuorumReached(votes, total_agents)
         THEN CASE cs.consensus_type = "MAJORITY"  -> check_majority_consensus(cs, rule_id, votes)
                [] cs.consensus_type = "UNANIMOUS" -> check_unanimous_consensus(cs, rule_id, votes)
                [] cs.consensus_type = "WEIGHTED"  -> check_weighted_consensus(cs, rule_id, votes)
         ELSE [cs |-> cs, status |-> "VOTING",
               ratio |-> <<Cardinality(DOMAIN votes), total_agents>>]

\* Consensus.check_consensus: the object after the call and the returned (status, ratio)
check_consensus(cs, rule_id, total_agents) ==
    IF rule_id \notin DOMAIN cs.votes
    THEN [cs |-> cs, status |-> "PENDING", ratio |-> <<0, 1>>]
    ELSE LET votes == cs.votes[rule_id] IN
         IF QuorumReached(votes, total_agents)
         THEN CASE cs.consensus_type = "MAJORITY"  -> check_majority_consensus(cs, rule_id, votes)
                [] cs.consensus_type = "UNANIMOUS" -> check_unanimous_consensus(cs, rule_id, votes)
                [] cs.consensus_type = "WEIGHTED"  -> check_weighted_consensus(cs, rule_id, votes)
         ELSE [cs |-> cs, status |-> "VOTING",
               ratio |-> <<Cardinality(DOMAIN votes), total_agents>>]

\* Consensus.get_rule_status
get_rule_status(cs, rule_id) ==
    IF rule_id \in DOMAIN cs.rule_status THEN cs.rule_status[rule_id] ELSE "UNKNOWN"

(***************************************************************************)
(* agents/crypto_utils.py                                                  *)
(*                                                                         *)
(* A key pair is named by its owner.  A public key is either the key       *)
(* object (form "key") or its PEM string (form "pem").  A signature names  *)
(* the private key that made it and the bytes it was made over.            *)
(***************************************************************************)
\* generate_key_pair: the public key object of the pair owned by `owner`
PublicKey(owner) == [owner |-> owner, form |-> "key"]

\* get_key_str: the PEM text of a public key object
get_key_str(public_key) == [owner |-> public_key.owner, form |-> "pem"]

\* load_public_key_from_str: the key object parsed from PEM text
load_public_key_from_str(key_str) == [owner |-> key_str.owner, form |-> "key"]

\* message.signature = None
NoSignature == [signer |-> "None", digest |-> [none |-> TRUE]]

\* the value None
NoneValue == [none |-> TRUE]

\* isinstance(message, str): a str is anything but bytes ([bytes |-> b]) and None
IsStr(message) == (DOMAIN message) \cap {"bytes", "none"} = {}

\* a str with a lone surrogate has no UTF-8 encoding
Encodable(message) == "unencodable" \notin DOMAIN message

\* message.encode('utf-8') for a str; bytes and everything else pass as they are
Encode(message) == IF IsStr(message) THEN [bytes |-> message] ELSE message

\* sign_message raises when encode or private_key.sign raises (the handler
\* logs and re-raises): a str that cannot be encoded, or no bytes at all
sign_message_raises(message) ==
    \/ IsStr(message) /\ ~Encodable(message)
    \/ "bytes" \notin DOMAIN Encode(message)

\* sign_message(message, private_key), private_key being the key of `owner`
sign_message(message, owner) == [signer |-> owner, digest |-> Encode(message)]

\* verify_signature encodes a str before its try block, so the error of
\* encode leaves the function
verify_signature_raises(message) == IsStr(message) /\ ~Encodable(message)

\* a verification that accepts the signature of any key
verify_any_key(message, signature, public_key) ==
    IF public_key.form # "key" THEN FALSE
    ELSE IF signature = NoSignature THEN FALSE
    ELSE signature.digest = Encode(message)

\* verify_signature: public_key.verify(...) raises on anything that is no key
\* object (a str has no verify) and on a None signature; `except Exception`
\* turns every such error into False
verify_signature(message, signature, public_key) ==
    IF public_key.form # "key" THEN FALSE
    ELSE IF signature = NoSignature THEN FALSE
    ELSE /\ signature.signer = public_key.owner
         /\ signature.digest = Encode(message)

\* no sign_message or verify_signature call has been made
NoCryptoCall == [op |-> "none"]

(***************************************************************************)
(* network/message.py                                                      *)
(*                                                                         *)
(* Time is counted in whole seconds.  The content of a RULE_PROPOSAL is    *)
(* the rule dict itself, an object shared by everyone holding the message: *)
(* it is kept in `heap` and the content is the reference [ref |-> n].      *)
(***************************************************************************)
\* f"{sender_id}-{int(self.timestamp)}"
MessageId(sender_id, timestamp) == <<sender_id, timestamp>>

\* Message.__init__
Message(sender_id, content, msg_type, timestamp) ==
    [sender_id |-> sender_id, content |-> content, msg_type |-> msg_type,
     timestamp |-> timestamp, message_id |-> MessageId(sender_id, timestamp),
     signature |-> NoSignature]

\* the value json.dumps sees for a content: a referenced dict is read as it is now
Resolve(hp, content) ==
    IF DOMAIN content = {"ref"} THEN hp[content.ref] ELSE content

\* Message.to_string: the signing payload (every field but the signature)
to_string(hp, m) ==
    [sender_id |-> m.sender_id, content |-> Resolve(hp, m.content),
     msg_type |-> m.msg_type, timestamp |-> m.timestamp, message_id |-> m.message_id]

(***************************************************************************)
(* agents/base_agent.py and network/gossip_protocol.py                     *)
(*                                                                         *)
(* A call runs to completion before the next one starts (the callers here  *)
(* are one thread), so a whole call, with the broadcasts its handlers      *)
(* start, is one step.  The call works on the record w:                    *)
(*   agent, gossip, heap, recv, now   the state                            *)
(*   calls   the receive_message invocations of this call, in order        *)
(*   depth   0 in the delivery loop of the call itself, +1 per nested      *)
(*           broadcast                                                     *)
(*   drop    the <<sender, receiver>> deliveries for which                 *)
(*           random.random() < reliability fails in this call              *)
(*   ids     the numbers random.randint draws for rule ids in this call    *)
(***************************************************************************)
AgentIds == {"A", "B", "C"}

\* reputation a peer starts with
InitialReputation == 50

\* reputation lost by a sender whose signature does not verify
InvalidSignaturePenalty == 5

\* reputation gained by the sender of a THREAT report
ThreatReportReward == 2

MinReputation == 0

MaxReputation == 100

\* an ANOMALY_DETECTED above this severity makes the receiver propose a rule
SeverityThreshold == 70

\* BaseAgent.__init__
AgentInit ==
    [known_agents |-> EmptyDict, reputation |-> EmptyDict, message_history |-> <<>>,
     threat_history |-> <<>>, rules |-> <<>>, proposed_rules |-> EmptyDict,
     detected_anomalies |-> EmptyDict]

\* GossipProtocol.__init__ followed by connect_to_network of each agent of `registered`
GossipInit(registered, reliability) ==
    [agents |-> registered, message_cache |-> EmptyDict, reliability |-> reliability,
     transport |-> FALSE,
     stats |-> [messages_sent |-> 0, messages_received |-> 0, delivery_failures |-> 0]]

\* the elements of a sequence
Range(seq) == {seq[i] : i \in 1..Len(seq)}

\* self.gossip is set: the agent called connect_to_network
Connected(w, a) == a \in Range(w.gossip.agents)

\* max(0, min(100, value)) without the bounds
NoClamp(value) == value

\* max(0, min(100, value))
Clamp(value) ==
    IF value < MinReputation THEN MinReputation
    ELSE IF value > MaxReputation THEN MaxReputation ELSE value

\* BaseAgent.update_reputation: the agent after the call
update_reputation(ag, agent_id, change) ==
    LET old == IF agent_id \in DOMAIN ag.reputation
               THEN ag.reputation[agent_id] ELSE InitialReputation
    IN  [ag EXCEPT !.reputation = DictSet(@, agent_id, Clamp(old + change))]

\* BaseAgent.create_message: a Message signed with the agent's private key
create_message(w, a, content, msg_type) ==
    LET m == Message(a, content, msg_type, w.now)
    IN  [m EXCEPT !.signature = sign_message(to_string(w.heap, m), a)]

\* BaseAgent.apply_rule(rule) called with the rule dict heap[ref]
apply_rule(w, a, ref) ==
    IF w.heap[ref].status = "APPROVED"
    THEN [w EXCEPT !.agent[a].rules = Append(@, ref)]
    ELSE w

\* the dict an agent builds in vote_for_rule
VoteDict(rule_id, approve, voter, timestamp) ==
    [rule_id |-> rule_id, vote |-> IF approve THEN "APPROVE" ELSE "REJECT",
     voter |-> voter, timestamp |-> timestamp]

\* the dict an agent builds in propose_rule
RuleDict(rule_id, rule_data, proposed_by, threat_id, timestamp) ==
    [id |-> rule_id, data |-> rule_data, proposed_by |-> proposed_by,
     threat_id |-> threat_id, timestamp |-> timestamp, status |-> "PROPOSED",
     votes |-> <<>>]

\* anomaly.get("severity", 0)
Severity(anomaly) == IF "severity" \in DOMAIN anomaly THEN anomaly.severity ELSE 0

\* a test that the threshold itself passes
SevereFrom(severity) == severity >= SeverityThreshold

\* `anomaly.get("severity", 0) > 70`
Severe(severity) == severity > SeverityThreshold

\* the rule_data templates of propose_rule_for_anomaly
AnomalyRuleData(anomaly) ==
    CASE anomaly.type = "activity_spike" ->
            [type |-> "RATE_LIMIT", target |-> anomaly.host_id, action |-> "THROTTLE",
             duration |-> 1800]
      [] anomaly.type = "unusual_time" ->
            [type |-> "MONITOR", target |-> anomaly.host_id, action |-> "ALERT",
             duration |-> 3600]
      [] anomaly.type = "new_connection" /\ anomaly.severity > 50 ->
            [type |-> "BLOCK_CONNECTION", target |-> anomaly.details.source,
             destination |-> anomaly.details.target, action |-> "BLOCK", duration |-> 1800]
      [] OTHER ->
            [type |-> "MONITOR", target |-> anomaly.host_id, action |-> "LOG",
             duration |-> 3600]

\* number of APPROVE entries of a list of votes
RECURSIVE Approvals(_)
Approvals(votes) ==
    IF votes = <<>> THEN 0
    ELSE (IF Head(votes).vote = "APPROVE" THEN 1 ELSE 0) + Approvals(Tail(votes))

\* the delivery loop that hands the message to the sender as well
SkipNobody(agent_id, m) == TRUE

\* `if agent_id != message.sender_id` of GossipProtocol.broadcast
NotSender(agent_id, m) == agent_id # m.sender_id

\* `random.random() < self.reliability` for the delivery from sender to agent_id:
\* certain at reliability 1.0, impossible at 0.0, either way in between
Delivered(w, sender_id, agent_id) ==
    \/ w.gossip.reliability = 100
    \/ w.gossip.reliability # 0 /\ <<sender_id, agent_id>> \notin w.drop

\* signature.hex() and bytes.fromhex(text)
Hex(signature) == [hex |-> signature]

FromHex(text) == text.hex

\* Message.to_dict: the five fields as they are, the signature as hex text or None
to_dict(m) ==
    [sender_id |-> m.sender_id, content |-> m.content, msg_type |-> m.msg_type,
     timestamp |-> m.timestamp, message_id |-> m.message_id,
     signature |-> IF m.signature # NoSignature THEN Hex(m.signature) ELSE NoSignature]

\* pickle.dumps of a message dict: a referenced rule dict travels by value
pickle_dumps(hp, data) ==
    IF DOMAIN data.content = {"ref"}
    THEN [data EXCEPT !.content = [rule |-> hp[data.content.ref]]]
    ELSE data

\* NetworkTransport.broadcast_to_network: send_message pickles message.to_dict()
\* for the known nodes
broadcast_to_network(w, m) ==
    [w EXCEPT !.forwarded = Append(@, pickle_dumps(w.heap, to_dict(m)))]

RECURSIVE receive_message(_, _, _)
RECURSIVE broadcast(_, _)
RECURSIVE broadcast_loop(_, _, _, _)
RECURSIVE propose_rule(_, _, _, _)
RECURSIVE vote_for_rule(_, _, _, _)

\* an `except Exception` that logs the error and counts nothing
except_uncounted(w) == [w EXCEPT !.raised = FALSE]

\* `except Exception as e` of the delivery loop of GossipProtocol.broadcast
delivery_except(w) ==
    [w EXCEPT !.raised = FALSE, !.gossip.stats.delivery_failures = @ + 1]

\* one delivery attempt of broadcast call number `call`, logged with its outcome
attempt(w, call, agent_id, outcome) ==
    [w EXCEPT !.attempts = Append(@, [call |-> call, to |-> agent_id, outcome |-> outcome])]

\* the loop `for agent_id, agent in self.agents.items()` of GossipProtocol.broadcast,
\* from the i-th registered agent on
broadcast_loop(w, m, i, call) ==
    IF i > Len(w.gossip.agents) THEN w
    ELSE LET agent_id == w.gossip.agents[i] IN
         IF ~NotSender(agent_id, m) THEN broadcast_loop(w, m, i + 1, call)
         ELSE IF Delivered(w, m.sender_id, agent_id)
              THEN LET w1 == receive_message(w, agent_id, m)
                   IN  IF w1.raised
                       THEN broadcast_loop(
                                attempt(delivery_except(w1), call, agent_id, "raised"),
                                m, i + 1, call)
                       ELSE broadcast_loop(attempt(w1, call, agent_id, "received"),
                                           m, i + 1, call)
              ELSE broadcast_loop(
                       attempt([w EXCEPT !.gossip.stats.delivery_failures = @ + 1],
                               call, agent_id, "dropped"),
                       m, i + 1, call)

\* GossipProtocol.broadcast
broadcast(w, m) ==
    LET call == w.gossip.stats.messages_sent + 1
        w1 == [w EXCEPT !.gossip.message_cache =
                            DictSet(@, m.message_id, [message |-> m, time |-> w.now]),
                        !.gossip.stats.messages_sent = call,
                        !.depth = @ + 1,
                        !.sends = Append(@, [call |-> call, sender_id |-> m.sender_id,
                                             message_id |-> m.message_id,
                                             depth |-> w.depth + 1])]
        w2 == [broadcast_loop(w1, m, 1, call) EXCEPT !.depth = w.depth]
    IN  IF w2.gossip.transport THEN broadcast_to_network(w2, m) ELSE w2

\* BaseAgent.vote_for_rule
vote_for_rule(w, a, rule_id, approve) ==
    LET message == create_message(w, a, VoteDict(rule_id, approve, a, w.now), "VOTE")
    IN  IF Connected(w, a) THEN broadcast(w, message) ELSE w

\* BaseAgent.propose_rule; the rule id is the next random draw
propose_rule(w, a, rule_data, threat_id) ==
    LET rule_id == Head(w.ids)
        ref     == Len(w.heap) + 1
        w1 == [w EXCEPT !.ids = Tail(@),
                        !.heap = Append(@, RuleDict(rule_id, rule_data, a, threat_id, w.now)),
                        !.agent[a].proposed_rules = DictSet(@, rule_id, ref)]
        message == create_message(w1, a, [ref |-> ref], "RULE_PROPOSAL")
    IN  IF Connected(w1, a) THEN broadcast(w1, message) ELSE w1

\* a majority test that a tie passes
LocalMajorityOrTie(votes) == 2 * Approvals(votes) >= Len(votes)

\* `approvals > len(rule["votes"]) / 2` of the VOTE branch
LocalMajority(votes) == 2 * Approvals(votes) > Len(votes)

\* the VOTE branch of BaseAgent.receive_message
handle_vote(w, a, vote) ==
    IF vote.rule_id \notin DOMAIN w.agent[a].proposed_rules THEN w
    ELSE LET ref   == w.agent[a].proposed_rules[vote.rule_id]
             votes == Append(w.heap[ref].votes, vote)
             w1    == [w EXCEPT !.heap[ref].votes = votes]
         IN  IF 2 * Len(votes) >= Cardinality(DOMAIN w.agent[a].known_agents)
             THEN IF LocalMajority(votes)
                  THEN apply_rule([w1 EXCEPT !.heap[ref].status = "APPROVED"], a, ref)
                  ELSE [w1 EXCEPT !.heap[ref].status = "REJECTED"]
             ELSE w1

\* the branches of BaseAgent.receive_message for an accepted message
handle_message(w, a, m) ==
    CASE m.msg_type = "AGENT_ANNOUNCE" ->
            [w EXCEPT !.agent[a].known_agents = DictSet(@, m.sender_id, m.content.public_key),
                      !.agent[a].reputation = DictSet(@, m.sender_id, InitialReputation)]
      [] m.msg_type = "THREAT" ->
            [w EXCEPT !.agent[a] =
                 update_reputation([@ EXCEPT !.threat_history = Append(@, m.content)],
                                   m.sender_id, ThreatReportReward)]
      [] m.msg_type = "RULE_PROPOSAL" ->
            vote_for_rule(
                [w EXCEPT !.agent[a].proposed_rules =
                              DictSet(@, w.heap[m.content.ref].id, m.content.ref)],
                a, w.heap[m.content.ref].id, TRUE)
      [] m.msg_type = "VOTE" -> handle_vote(w, a, m.content)
      [] m.msg_type = "ANOMALY_DETECTED" ->
            LET w1 == [w EXCEPT !.agent[a].detected_anomalies =
                                    DictSet(@, m.content.id, m.content)]
            IN  IF Severe(Severity(m.content))
                THEN propose_rule(w1, a, AnomalyRuleData(m.content), "None")
                ELSE w1
      [] OTHER -> w

\* the keys of the content that the branch of msg_type subscripts before it
\* changes anything
RequiredKeys(msg_type) ==
    CASE msg_type = "AGENT_ANNOUNCE" -> {"public_key"}
      [] msg_type = "THREAT" -> {"data"}
      [] msg_type = "VOTE" -> {"rule_id", "vote"}
      [] msg_type = "ANOMALY_DETECTED" -> {"description", "id"}
      [] OTHER -> {}

\* the branch of m raises KeyError
handler_raises(m) == ~(RequiredKeys(m.msg_type) \subseteq DOMAIN m.content)

\* a rejection that also keeps the message
reject_and_record(w, a, m) ==
    [w EXCEPT !.agent[a] =
         update_reputation([@ EXCEPT !.message_history = Append(@, m)],
                           m.sender_id, 0 - InvalidSignaturePenalty)]

\* the branch of BaseAgent.receive_message for a signature that does not verify
reject_message(w, a, m) ==
    [w EXCEPT !.agent[a] = update_reputation(@, m.sender_id, 0 - InvalidSignaturePenalty)]

\* a test that also turns away every message that carries no signature
UnsignedRejected(hp, ag, m) ==
    \/ m.signature = NoSignature
    \/ /\ m.sender_id \in DOMAIN ag.known_agents
       /\ ~verify_signature(to_string(hp, m), m.signature, ag.known_agents[m.sender_id])

\* the test at the head of BaseAgent.receive_message: the signature is looked at
\* only when the sender is in known_agents
SignatureRejected(hp, ag, m) ==
    /\ m.sender_id \in DOMAIN ag.known_agents
    /\ ~verify_signature(to_string(hp, m), m.signature, ag.known_agents[m.sender_id])

\* BaseAgent.receive_message; the invocation and its return value are logged in
\* w.calls, and w.raised tells the caller that the call ended in an exception
receive_message(w, a, m) ==
    LET idx == Len(w.calls) + 1
        key == <<a, m.message_id>>
        w0  == [w EXCEPT !.calls = Append(@, [to |-> a, message_id |-> m.message_id,
                                              msg_type |-> m.msg_type, depth |-> w.depth,
                                              ret |-> FALSE]),
                         !.recv = DictSet(@, key, IF key \in DOMAIN @ THEN @[key] + 1 ELSE 1)]
        ag  == w.agent[a]
    IN  IF SignatureRejected(w.heap, ag, m)
        THEN reject_message(w0, a, m)
        ELSE LET w1 == [w0 EXCEPT !.agent[a].message_history = Append(@, m)]
             IN  IF handler_raises(m) THEN [w1 EXCEPT !.raised = TRUE]
                 ELSE [handle_message(w1, a, m) EXCEPT !.calls[idx].ret = TRUE]

\* GossipProtocol.send_message: the state after the call and the returned bool
send_message(w, m, recipient_id) ==
    LET w1 == [w EXCEPT !.gossip.message_cache =
                            DictSet(@, m.message_id, [message |-> m, time |-> w.now])]
    IN  IF recipient_id \notin Range(w.gossip.agents) THEN [w |-> w1, ret |-> FALSE]
        ELSE LET w2 == [w1 EXCEPT !.gossip.stats.messages_sent = @ + 1, !.depth = @ + 1]
             IN  IF Delivered(w2, m.sender_id, recipient_id)
                 THEN LET w3 == receive_message(w2, recipient_id, m)
                      IN  IF w3.raised
                          THEN [w |-> [delivery_except(w3) EXCEPT !.depth = w.depth],
                                ret |-> FALSE]
                          ELSE [w |-> [w3 EXCEPT !.depth = w.depth], ret |-> TRUE]
                 ELSE [w |-> [w2 EXCEPT !.gossip.stats.delivery_failures = @ + 1,
                                        !.depth = w.depth],
                       ret |-> FALSE]

\* `except Exception as e` of the delivery loop of process_remote_message
remote_except(w) == [w EXCEPT !.raised = FALSE]

RECURSIVE remote_loop(_, _, _)
\* the loop `for agent_id, agent in self.agents.items()` of process_remote_message
remote_loop(w, m, i) ==
    IF i > Len(w.gossip.agents) THEN w
    ELSE remote_loop(remote_except(receive_message(w, w.gossip.agents[i], m)), m, i + 1)

\* process_remote_message without the duplicate test
NeverCached(cache, message_id) == FALSE

\* `message.message_id in self.message_cache` of process_remote_message
IsCached(cache, message_id) == message_id \in DOMAIN cache

\* a process_remote_message that hands the message on to the transport as
\* broadcast does
process_remote_message_relayed(w, m) ==
    IF IsCached(w.gossip.message_cache, m.message_id) THEN w
    ELSE LET w1 == [w EXCEPT !.gossip.message_cache =
                                 DictSet(@, m.message_id, [message |-> m, time |-> w.now]),
                             !.gossip.stats.messages_received = @ + 1,
                             !.depth = @ + 1]
             w2 == [remote_loop(w1, m, 1) EXCEPT !.depth = w.depth]
         IN  IF w2.gossip.transport THEN broadcast_to_network(w2, m) ELSE w2

\* GossipProtocol.process_remote_message
process_remote_message(w, m) ==
    IF IsCached(w.gossip.message_cache, m.message_id) THEN w
    ELSE LET w1 == [w EXCEPT !.gossip.message_cache =
                                 DictSet(@, m.message_id, [message |-> m, time |-> w.now]),
                             !.gossip.stats.messages_received = @ + 1,
                             !.depth = @ + 1]
         IN  [remote_loop(w1, m, 1) EXCEPT !.depth = w.depth]

\* GossipProtocol._cleanup_message_cache: the cache without the expired entries
cleanup_message_cache(cache, time, message_ttl) ==
    LET expired_ids == {id \in DOMAIN cache : time - cache[id].time > message_ttl}
    IN  [id \in (DOMAIN cache) \ expired_ids |-> cache[id]]

\* no Message object is being serialized
NoWire == [op |-> "none"]

\* a from_dict that leaves the signature out
from_dict_unsigned(w, data) ==
    LET content == IF DOMAIN data.content = {"rule"}
                   THEN [ref |-> Len(w.heap) + 1] ELSE data.content
    IN  [w |-> IF DOMAIN data.content = {"rule"}
               THEN [w EXCEPT !.heap = Append(@, data.content.rule)] ELSE w,
         m |-> [Message(data.sender_id, content, data.msg_type, w.now) EXCEPT
                    !.timestamp = data.timestamp,
                    !.message_id = data.message_id]]

\* Message.from_dict: the constructor stamps the message with the current
\* time, then timestamp and message_id are overwritten from the dict and the
\* signature is decoded when the dict has one.  pickle.loads has built new
\* objects before, so a rule that arrives by value is a rule dict of its own.
from_dict(w, data) ==
    LET content == IF DOMAIN data.content = {"rule"}
                   THEN [ref |-> Len(w.heap) + 1] ELSE data.content
    IN  [w |-> IF DOMAIN data.content = {"rule"}
               THEN [w EXCEPT !.heap = Append(@, data.content.rule)] ELSE w,
         m |-> [Message(data.sender_id, content, data.msg_type, w.now) EXCEPT
                    !.timestamp = data.timestamp,
                    !.message_id = data.message_id,
                    !.signature = IF data.signature # NoSignature
                                  THEN FromHex(data.signature) ELSE NoSignature]]

(***************************************************************************)
(* rules/rule_engine.py: RuleEngine.  self.rules maps a rule id to the     *)
(* rule dict the caller handed in (a reference into heap); active_rules    *)
(* maps a rule id to its expiration time.                                  *)
(***************************************************************************)
\* the keys of self.rule_actions
RuleActions == {"ALERT", "BLOCK", "ISOLATE", "SCAN"}

\* rule["data"].get("duration", 3600)
DefaultDuration == 3600

\* rule["data"].get("action", "ALERT")
DefaultAction == "ALERT"

\* d.get(k, default)
Get(d, k, default) == IF k \in DOMAIN d THEN d[k] ELSE default

\* RuleEngine.__init__
RuleEngineInit == [rules |-> EmptyDict, active_rules |-> EmptyDict]

\* RuleEngine.register_rule(rule) with the rule dict hp[ref]
register_rule(eng, hp, ref) == [eng EXCEPT !.rules = DictSet(@, hp[ref].id, ref)]

\* an engine that applies whatever status the rule has
AnyStatus(status) == TRUE

\* `rule.get("status") != "APPROVED"` of RuleEngine.apply_rule, negated
StatusApproved(status) == status = "APPROVED"

\* an engine that takes every action for one it can execute
AnyAction(action) == TRUE

\* `action_type in self.rule_actions`
KnownAction(action) == action \in RuleActions

\* RuleEngine.apply_rule(rule_id) at time.time() = time: the engine after the
\* call and the returned bool; every _execute_* action returns True
engine_apply_rule(eng, hp, rule_id, time) ==
    IF rule_id \notin DOMAIN eng.rules THEN [eng |-> eng, ret |-> FALSE]
    ELSE LET rule == hp[eng.rules[rule_id]] IN
         IF ~StatusApproved(Get(rule, "status", "None")) THEN [eng |-> eng, ret |-> FALSE]
         ELSE IF KnownAction(Get(rule.data, "action", DefaultAction))
              THEN [eng |-> [eng EXCEPT !.active_rules =
                                 DictSet(@, rule_id,
                                         time + Get(rule.data, "duration", DefaultDuration))],
                    ret |-> TRUE]
              ELSE [eng |-> eng, ret |-> FALSE]

\* a sweep that keeps everything
NeverExpired(expiration, time) == FALSE

\* `expiration < current_time` of _cleanup_expired_rules
Expired(expiration, time) == expiration < time

\* a sweep that empties active_rules
cleanup_all_rules(eng, time) == [eng EXCEPT !.active_rules = EmptyDict]

\* RuleEngine._cleanup_expired_rules
cleanup_expired_rules(eng, time) ==
    [eng EXCEPT !.active_rules =
         [id \in {i \in DOMAIN @ : ~Expired(@[i], time)} |-> @[id]]]

\* RuleEngine.check_rule_applicability(event, target): the engine after the call
\* and the ids of the rules in the returned list (the list holds each active
\* rule with a matching target once, in dict order)
check_rule_applicability(eng, hp, target, time) ==
    LET e1 == cleanup_expired_rules(eng, time)
    IN  [eng |-> e1,
         ret |-> {id \in DOMAIN e1.active_rules :
                     Get(hp[e1.rules[id]].data, "target", "None") = target}]

\* BaseAgent.apply_rule(rule) called with a rule id (a str): the state after the
\* call and the returned bool
apply_rule_by_id(w, a, rule_id) ==
    IF rule_id \notin DOMAIN w.agent[a].proposed_rules THEN [w |-> w, ret |-> FALSE]
    ELSE LET ref == w.agent[a].proposed_rules[rule_id]
         IN  [w |-> apply_rule(w, a, ref), ret |-> w.heap[ref].status = "APPROVED"]

NoEngineCall == [op |-> "none"]

(***************************************************************************)
(* The coordinator as a state machine: one action per public method.       *)
(***************************************************************************)
NoCall == [op |-> "none"]

ConsRegisterVote(rule_id, agent_id, vote, reputation) ==
    /\ consensus' = register_vote(consensus, rule_id, agent_id, vote, reputation)
    /\ UNCHANGED <<network_vars, engine_vars, crypto, wire, nodes, service>>
    /\ clast' = [op |-> "register_vote", rule_id |-> rule_id, agent_id |-> agent_id,
                 vote |-> vote, reputation |-> reputation,
                 \* whether the voter already had a vote for the rule when the call was made
                 overwrote |-> /\ rule_id \in DOMAIN consensus.votes
                               /\ agent_id \in DOMAIN consensus.votes[rule_id]]

ConsCheckConsensus(rule_id, total_agents) ==
    LET r == check_consensus(consensus, rule_id, total_agents) IN
    /\ consensus' = r.cs
    /\ UNCHANGED <<network_vars, engine_vars, crypto, wire, nodes, service>>
    /\ clast' = [op |-> "check_consensus", rule_id |-> rule_id,
                 total_agents |-> total_agents, status |-> r.status, ratio |-> r.ratio,
                 \* what get_rule_status returned for the rule when the call was made
                 was |-> get_rule_status(consensus, rule_id)]

\* the background loops after GossipProtocol.__init__ and NetworkTransport.__init__:
\* running is False and no thread has been started.  woke_late names the loops
\* that have woken up since stop(), late_sleeps and late_spawns count the sleeps
\* and the connection threads a loop has started after such a wake-up or after
\* stop() respectively, round is the last round of _periodic_sync.
ServiceInit ==
    [running |-> FALSE, stopped |-> FALSE, sweep |-> "off", sync |-> "off",
     server_running |-> FALSE, server_stopped |-> FALSE, socket |-> "none",
     accept |-> "off", spawned |-> 0, woke_late |-> {}, late_sleeps |-> 0,
     late_spawns |-> 0, round |-> [selected |-> {}, peers |-> EmptyDict]]

\* the agents and the gossip service right after construction, `registered` connected
NetworkInit(registered, reliabilities) ==
    /\ agent = [a \in AgentIds |-> AgentInit]
    /\ gossip \in {GossipInit(registered, r) : r \in reliabilities}
    /\ heap = <<>>
    /\ forwarded = <<>>
    /\ now = 0
    /\ recv = EmptyDict
    /\ glast = [op |-> "none", by |-> "-", message_id |-> <<"-", 0>>, was_cached |-> FALSE,
                calls |-> <<>>, sends |-> <<>>, attempts |-> <<>>, ret |-> TRUE]
    /\ ncalls = 0
    /\ threads = EmptyDict
    /\ cache_lock = "free"
    /\ engine = RuleEngineInit
    /\ elast = NoEngineCall
    /\ crypto = NoCryptoCall
    /\ wire = NoWire
    /\ nodes = EmptyDict
    /\ service = ServiceInit

(***************************************************************************)
(* The agents and the gossip service as a state machine: one action per    *)
(* call a driver (main.py, start.py, tests/test_network.py) or the         *)
(* transport makes.                                                        *)
(***************************************************************************)
\* calls per behaviour
MaxCalls == 3

\* the clock stops here
MaxTime == 1

\* message_ttl of the GossipProtocol, in seconds
MessageTtl == 0

\* an agent living on a remote node
RemoteAgent == "X"

\* every outcome of the random draws of one call's deliveries
Drops ==
    IF gossip.reliability \in {0, 100} THEN {{}}
    ELSE SUBSET {p \in (Range(gossip.agents) \cup {RemoteAgent}) \X Range(gossip.agents) :
                     p[1] # p[2]}

\* the state a call starts from
World(drop, ids) ==
    [agent |-> agent, gossip |-> gossip, heap |-> heap, forwarded |-> forwarded,
     recv |-> recv, now |-> now, calls |-> <<>>, depth |-> 0, drop |-> drop, ids |-> ids,
     raised |-> FALSE, sends |-> <<>>, attempts |-> <<>>]

\* the state a call leaves, and the record of the call
Commit(w, op, by, message_id, ret) ==
    /\ agent' = w.agent
    /\ gossip' = w.gossip
    /\ heap' = w.heap
    /\ forwarded' = w.forwarded
    /\ recv' = w.recv
    /\ glast' = [op |-> op, by |-> by, message_id |-> message_id,
                 was_cached |-> message_id \in DOMAIN gossip.message_cache,
                 calls |-> w.calls, sends |-> w.sends, attempts |-> w.attempts,
                 ret |-> ret]
    /\ ncalls' = ncalls + 1
    /\ UNCHANGED <<now, consensus, clast, crypto, wire, nodes, service, thread_vars, engine_vars>>

\* BaseAgent.announce_presence
AnnouncePresence(a, drop) ==
    /\ ncalls < MaxCalls
    /\ a \in Range(gossip.agents)
    /\ LET w == World(drop, <<>>)
           message == create_message(w, a, [agent_id |-> a,
                                            public_key |-> get_key_str(PublicKey(a))],
                                     "AGENT_ANNOUNCE")
       IN  Commit(broadcast(w, message), "announce_presence", a, message.message_id, TRUE)

\* BaseAgent.detect_threat (threat_data without a "source")
DetectThreat(a, threat_id, drop) ==
    /\ ncalls < MaxCalls
    /\ a \in Range(gossip.agents)
    /\ LET threat == [id |-> threat_id, data |-> [type |-> "scan"], detected_by |-> a,
                      timestamp |-> now]
           w == [World(drop, <<>>) EXCEPT !.agent[a].threat_history = Append(@, threat)]
           message == create_message(w, a, threat, "THREAT")
       IN  Commit(broadcast(w, message), "detect_threat", a, message.message_id, TRUE)

\* BaseAgent.propose_rule (rule_data without a "target"); an agent that is not
\* connected keeps the rule to itself
ProposeRule(a, rule_id, drop) ==
    /\ ncalls < MaxCalls
    /\ Commit(propose_rule(World(drop, <<rule_id>>), a,
                           [type |-> "FIREWALL", action |-> "BLOCK", duration |-> 1], "None"),
              "propose_rule", a, MessageId(a, now), TRUE)

\* BaseAgent.vote_for_rule
VoteForRule(a, rule_id, approve, drop) ==
    /\ ncalls < MaxCalls
    /\ a \in Range(gossip.agents)
    /\ Commit(vote_for_rule(World(drop, <<>>), a, rule_id, approve),
              "vote_for_rule", a, MessageId(a, now), TRUE)

\* gossip.broadcast(sender.create_message(content, "TEST_MESSAGE")), as in test_message_broadcast
BroadcastTest(a, drop) ==
    /\ ncalls < MaxCalls
    /\ a \in Range(gossip.agents)
    /\ LET w == World(drop, <<>>)
           message == create_message(w, a, [test |-> "data"], "TEST_MESSAGE")
       IN  Commit(broadcast(w, message), "broadcast", a, message.message_id, TRUE)

\* gossip.broadcast(message) again, with a message that was disseminated before
Rebroadcast(message_id, drop) ==
    /\ ncalls < MaxCalls
    /\ message_id \in DOMAIN gossip.message_cache
    /\ LET message == gossip.message_cache[message_id].message
       IN  Commit(broadcast(World(drop, <<>>), message), "rebroadcast",
                  message.sender_id, message_id, TRUE)

\* gossip.send_message(message, recipient_id) with a message that was disseminated before
SendMessage(message_id, recipient_id, drop) ==
    /\ ncalls < MaxCalls
    /\ message_id \in DOMAIN gossip.message_cache
    /\ LET message == gossip.message_cache[message_id].message
           r == send_message(World(drop, <<>>), message, recipient_id)
       IN  Commit(r.w, "send_message", message.sender_id, message_id, r.ret)

\* what the remote agent signs and its node sends: its announce, a threat report, a test message
RemoteMessages(timestamp) ==
    LET signed(content, msg_type) ==
            LET m == Message(RemoteAgent, content, msg_type, timestamp)
            IN  [m EXCEPT !.signature = sign_message(to_string(<<>>, m), RemoteAgent)]
    IN  {to_dict(signed([agent_id |-> RemoteAgent,
                         public_key |-> get_key_str(PublicKey(RemoteAgent))],
                        "AGENT_ANNOUNCE")),
         to_dict(signed([id |-> "t9", data |-> [type |-> "scan"],
                         detected_by |-> RemoteAgent, timestamp |-> timestamp], "THREAT")),
         to_dict(signed([test |-> "data"], "TEST_MESSAGE"))}

\* NetworkTransport._handle_client: a connection thread hands one received message over
ProcessRemote(data) ==
    /\ ncalls < MaxCalls
    /\ LET d == from_dict(World({}, <<>>), data)
       IN  Commit(process_remote_message(d.w, d.m), "process_remote_message",
                  data.sender_id, data.message_id, TRUE)

\* GossipProtocol._cleanup_thread: one sweep
CleanupMessageCache ==
    /\ \E id \in DOMAIN gossip.message_cache : now - gossip.message_cache[id].time > MessageTtl
    /\ gossip' = [gossip EXCEPT !.message_cache = cleanup_message_cache(@, now, MessageTtl)]
    /\ UNCHANGED <<agent, heap, forwarded, now, recv, glast, ncalls, consensus, clast,
                   crypto, wire, nodes, service,
                   thread_vars, engine_vars>>

\* a second passes
Tick ==
    /\ now < MaxTime
    /\ now' = now + 1
    /\ UNCHANGED <<agent, gossip, heap, forwarded, recv, glast, ncalls, consensus, clast,
                   crypto, wire, nodes, service,
                   thread_vars, engine_vars>>

\* a direct call agent.update_reputation(agent_id, change)
UpdateReputation(a, agent_id, change) ==
    /\ ncalls < MaxCalls
    /\ Commit([World({}, <<>>) EXCEPT !.agent[a] = update_reputation(@, agent_id, change)],
              "update_reputation", a, MessageId(agent_id, 0), TRUE)

(***************************************************************************)
(* The transport's connection threads, step by step.  _handle_connections  *)
(* starts one thread per accepted connection; the thread reads one message *)
(* and runs process_remote_message on it.  A step is what a thread does    *)
(* between two points where another thread can run: taking the lock, the   *)
(* membership test, the insertion, leaving the `with` block, the read and  *)
(* the write of `stats[...] += 1`, one receive_message of the loop.        *)
(***************************************************************************)
Threads == {"T1", "T2", "T3"}

\* a thread that ignores who holds the lock
LockIgnored(lock) == TRUE

\* threading.Lock: acquire returns when nobody holds the lock
LockFree(lock) == lock = "free"

\* one step of thread t that touches only the thread and the lock
ThreadStep(t, pc, lock) ==
    /\ threads' = [threads EXCEPT ![t].pc = pc]
    /\ cache_lock' = lock
    /\ UNCHANGED <<agent, gossip, heap, forwarded, now, recv, glast, ncalls, consensus, clast,
                   crypto, wire, nodes, service,
                   engine_vars>>

\* _handle_connections / _handle_client up to the call: accept, start the
\* thread, recv, pickle.loads, Message.from_dict
HandleClient(t, data) ==
    /\ t \notin DOMAIN threads
    /\ LET d == from_dict(World({}, <<>>), data)
       IN  /\ heap' = d.w.heap
           /\ threads' = DictSet(threads, t, [pc |-> "acquire", message |-> d.m,
                                              fresh |-> FALSE, stats_read |-> 0,
                                              next |-> 1, delivered |-> 0])
    /\ UNCHANGED <<agent, gossip, forwarded, now, recv, glast, ncalls, consensus, clast,
                   crypto, wire, nodes, service,
                   cache_lock, engine_vars>>

\* `with self.cache_lock:` entered
RemoteAcquire(t) ==
    /\ t \in DOMAIN threads /\ threads[t].pc = "acquire"
    /\ LockFree(cache_lock)
    /\ ThreadStep(t, "check", t)

\* `if message.message_id in self.message_cache:`
RemoteCheck(t) ==
    /\ t \in DOMAIN threads /\ threads[t].pc = "check"
    /\ IF IsCached(gossip.message_cache, threads[t].message.message_id)
       THEN ThreadStep(t, "return", cache_lock)
       ELSE ThreadStep(t, "insert", cache_lock)

\* `self.message_cache[message.message_id] = (message, time.time())`
RemoteInsert(t) ==
    /\ t \in DOMAIN threads /\ threads[t].pc = "insert"
    /\ gossip' = [gossip EXCEPT !.message_cache =
                      DictSet(@, threads[t].message.message_id,
                              [message |-> threads[t].message, time |-> now])]
    /\ threads' = [threads EXCEPT ![t].pc = "release", ![t].fresh = TRUE]
    /\ UNCHANGED <<agent, heap, forwarded, now, recv, glast, ncalls, consensus, clast,
                   crypto, wire, nodes, service,
                   cache_lock, engine_vars>>

\* the `with` block left: by `return` for a duplicate, by falling through otherwise
RemoteRelease(t) ==
    /\ t \in DOMAIN threads /\ threads[t].pc \in {"return", "release"}
    /\ ThreadStep(t, IF threads[t].pc = "return" THEN "done" ELSE "stats", "free")

\* `self.stats["messages_received"] += 1`: the read
RemoteStatsRead(t) ==
    /\ t \in DOMAIN threads /\ threads[t].pc = "stats"
    /\ threads' = [threads EXCEPT ![t].pc = "stats_write",
                                  ![t].stats_read = gossip.stats.messages_received]
    /\ UNCHANGED <<agent, gossip, heap, forwarded, now, recv, glast, ncalls, consensus, clast,
                   crypto, wire, nodes, service,
                   cache_lock, engine_vars>>

\* `self.stats["messages_received"] += 1`: the write
RemoteStatsWrite(t) ==
    /\ t \in DOMAIN threads /\ threads[t].pc = "stats_write"
    /\ gossip' = [gossip EXCEPT !.stats.messages_received = threads[t].stats_read + 1]
    /\ threads' = [threads EXCEPT ![t].pc = IF Len(gossip.agents) = 0 THEN "done"
                                            ELSE "deliver"]
    /\ UNCHANGED <<agent, heap, forwarded, now, recv, glast, ncalls, consensus, clast,
                   crypto, wire, nodes, service,
                   cache_lock, engine_vars>>

\* `agent.receive_message(message)` run by thread t from call to return, and
\* the loop over self.agents moved on
Delivery(t) ==
    /\ t \in DOMAIN threads
    /\ LET th == threads[t]
           w == receive_message([World({}, <<>>) EXCEPT !.depth = 1],
                                gossip.agents[th.next], th.message)
       IN  /\ agent' = w.agent
           /\ gossip' = w.gossip
           /\ heap' = w.heap
           /\ forwarded' = w.forwarded
           /\ recv' = w.recv
           /\ threads' = [threads EXCEPT ![t].next = th.next + 1,
                                         ![t].delivered = th.delivered + 1,
                                         ![t].pc = IF th.next = Len(gossip.agents)
                                                   THEN "done" ELSE "deliver"]
    /\ UNCHANGED <<now, glast, ncalls, consensus, clast, crypto, wire, nodes, service, cache_lock,
                   engine_vars>>

\* one `agent.receive_message(message)` of the loop over self.agents; the call
\* is taken as one step, which leaves the number of invocations as it is
RemoteDeliver(t) ==
    /\ t \in DOMAIN threads /\ threads[t].pc = "deliver"
    /\ Delivery(t)

\* thread t calls `agent.receive_message(message)` and is inside the handler
RemoteEnter(t) ==
    /\ t \in DOMAIN threads /\ threads[t].pc = "deliver"
    /\ ThreadStep(t, "handler", cache_lock)

\* the handler that thread t is inside returns
RemoteReturn(t) ==
    /\ t \in DOMAIN threads /\ threads[t].pc = "handler"
    /\ Delivery(t)

(***************************************************************************)
(* The rule engine as a state machine: one action per public method, and   *)
(* the clock.                                                              *)
(***************************************************************************)
\* rule dicts registered per behaviour
MaxRules == 2

\* single seconds the engine's clock advances, before and after the long step
MaxEngineTime == 2

\* the hosts a rule or a query can name
Targets == {"h1", "h2"}

\* the rule dicts a driver hands to register_rule: every status (also none),
\* actions the engine knows, does not know (LOG) or has to default, durations
\* given or defaulted, targets given or absent
EngineRules ==
    {[id |-> "r1", status |-> st,
      data |-> [type |-> "BLOCK", target |-> "h1", action |-> "BLOCK", duration |-> 1]] :
        st \in {"PROPOSED", "APPROVED", "REJECTED"}}
    \cup {[id |-> "r1",
           data |-> [type |-> "BLOCK", target |-> "h1", action |-> "BLOCK", duration |-> 1]],
          [id |-> "r2", status |-> "APPROVED", data |-> [type |-> "MONITOR", target |-> "h1"]],
          [id |-> "r2", status |-> "APPROVED",
           data |-> [type |-> "MONITOR", target |-> "h2", action |-> "LOG", duration |-> 1]],
          [id |-> "r1", status |-> "APPROVED",
           data |-> [type |-> "SCAN", action |-> "SCAN", duration |-> 2]]}

\* rule_engine.register_rule(rule) with a rule dict the driver built
RegisterRule(rule) ==
    /\ Len(heap) < MaxRules
    /\ heap' = Append(heap, rule)
    /\ engine' = register_rule(engine, heap', Len(heap) + 1)
    /\ elast' = [op |-> "register_rule", rule_id |-> rule.id, target |-> "None",
                 ret |-> TRUE, applicable |-> {}, expired |-> {}]
    /\ UNCHANGED <<agent, gossip, forwarded, now, recv, glast, ncalls, consensus, clast,
                   crypto, wire, nodes, service,
                   thread_vars>>

\* rule_engine.apply_rule(rule_id)
EngineApplyRule(rule_id) ==
    LET r == engine_apply_rule(engine, heap, rule_id, now) IN
    /\ engine' = r.eng
    /\ elast' = [op |-> "apply_rule", rule_id |-> rule_id, target |-> "None",
                 ret |-> r.ret, applicable |-> {}, expired |-> {}]
    /\ UNCHANGED <<agent, gossip, heap, forwarded, now, recv, glast, ncalls, consensus, clast,
                   crypto, wire, nodes, service,
                   thread_vars>>

\* rule_engine.check_rule_applicability(event, target)
CheckRuleApplicability(target) ==
    LET r == check_rule_applicability(engine, heap, target, now) IN
    /\ engine' = r.eng
    /\ elast' = [op |-> "check_rule_applicability", rule_id |-> "None", target |-> target,
                 ret |-> TRUE, applicable |-> r.ret,
                 \* the entries the call's sweep removed
                 expired |-> (DOMAIN engine.active_rules) \ DOMAIN r.eng.active_rules]
    /\ UNCHANGED <<agent, gossip, heap, forwarded, now, recv, glast, ncalls, consensus, clast,
                   crypto, wire, nodes, service,
                   thread_vars>>

\* time passes: a second, or (once) as long as the default duration
EngineTick(d) ==
    /\ d = 1 => now % DefaultDuration < MaxEngineTime
    /\ d = DefaultDuration => now < DefaultDuration
    /\ now' = now + d
    /\ UNCHANGED <<agent, gossip, heap, forwarded, recv, glast, ncalls, consensus, clast,
                   crypto, wire, nodes, service,
                   thread_vars, engine_vars>>

\* rule_engine.register_rule(rule) with the rule an agent holds, as main.py does
RegisterProposed(a, rule_id) ==
    /\ rule_id \in DOMAIN agent[a].proposed_rules
    /\ engine' = register_rule(engine, heap, agent[a].proposed_rules[rule_id])
    /\ elast' = [op |-> "register_rule", rule_id |-> rule_id, target |-> "None",
                 ret |-> TRUE, applicable |-> {}, expired |-> {}]
    /\ UNCHANGED <<agent, gossip, heap, forwarded, now, recv, glast, ncalls, consensus, clast,
                   crypto, wire, nodes, service,
                   thread_vars>>

\* agent.apply_rule(rule_id), as the drivers call it
AgentApplyRule(a, rule_id) ==
    LET r == apply_rule_by_id(World({}, <<>>), a, rule_id) IN
    /\ ncalls < MaxCalls
    /\ ncalls' = ncalls + 1
    /\ agent' = r.w.agent
    /\ elast' = [op |-> "agent_apply_rule", rule_id |-> rule_id, target |-> a,
                 ret |-> r.ret, applicable |-> {}, expired |-> {}]
    /\ UNCHANGED <<gossip, heap, forwarded, now, recv, glast, consensus, clast,
                   crypto, wire, nodes, service,
                   thread_vars, engine>>

\* Two connected agents A and B (C is constructed and not connected) on reliable
\* links, driven through the agents' own methods.
Init ==
    /\ consensus = ConsensusInit("MAJORITY")
    /\ clast = NoCall
    /\ NetworkInit(<<"A", "B">>, {100})

Next ==
    \/ \E a \in AgentIds, drop \in Drops : AnnouncePresence(a, drop)
    \/ \E a \in AgentIds, drop \in Drops : DetectThreat(a, "t1", drop)
    \/ \E a \in Range(gossip.agents), rule_id \in RuleIds, drop \in Drops :
            ProposeRule(a, rule_id, drop)
    \/ \E a \in AgentIds, rule_id \in RuleIds, approve \in BOOLEAN, drop \in Drops :
            VoteForRule(a, rule_id, approve, drop)
    \/ \E a \in AgentIds, drop \in Drops : BroadcastTest(a, drop)

Spec == Init /\ [][Next]_vars

\* The disseminator alone: local broadcasts, repeated sends, messages from the
\* transport, the cache sweep.
InitDedup ==
    /\ consensus = ConsensusInit("MAJORITY")
    /\ clast = NoCall
    /\ NetworkInit(<<"A", "B">>, {100})

NextDedup ==
    \/ \E a \in AgentIds, drop \in Drops : BroadcastTest(a, drop)
    \/ \E id \in DOMAIN gossip.message_cache, drop \in Drops : Rebroadcast(id, drop)
    \/ \E id \in DOMAIN gossip.message_cache, a \in AgentIds, drop \in Drops :
            SendMessage(id, a, drop)
    \/ \E t \in 0..now : \E data \in RemoteMessages(t) : ProcessRemote(data)
    \/ CleanupMessageCache
    \/ Tick

SpecDedup == InitDedup /\ [][NextDedup]_vars

\* Reputation tables under direct update_reputation calls and under the messages
\* that touch them: announces, threat reports, messages whose signature fails.
ReputationChanges == {0 - 60, 0 - InvalidSignaturePenalty, ThreatReportReward, 60}

InitReputation ==
    /\ consensus = ConsensusInit("MAJORITY")
    /\ clast = NoCall
    /\ NetworkInit(<<"A", "B">>, {100})

NextReputation ==
    \/ \E a \in Range(gossip.agents), change \in ReputationChanges :
         \E p \in (Range(gossip.agents) \cup {RemoteAgent}) \ {a} :
            UpdateReputation(a, p, change)
    \/ \E a \in AgentIds, drop \in Drops : AnnouncePresence(a, drop)
    \/ \E a \in AgentIds, drop \in Drops : DetectThreat(a, "t1", drop)
    \/ \E a \in AgentIds, drop \in Drops : BroadcastTest(a, drop)
    \/ \E data \in RemoteMessages(now) : ProcessRemote(data)

SpecReputation == InitReputation /\ [][NextReputation]_vars

\* The connection threads alone: every interleaving of their steps, no sweep.
InitRemote ==
    /\ consensus = ConsensusInit("MAJORITY")
    /\ clast = NoCall
    /\ NetworkInit(<<"A", "B">>, {100})

NextRemote ==
    \/ \E t \in Threads, ts \in 0..MaxTime :
         \E data \in {m \in RemoteMessages(ts) : m.msg_type # "THREAT"} :
            HandleClient(t, data)
    \/ \E t \in Threads : RemoteAcquire(t)
    \/ \E t \in Threads : RemoteCheck(t)
    \/ \E t \in Threads : RemoteInsert(t)
    \/ \E t \in Threads : RemoteRelease(t)
    \/ \E t \in Threads : RemoteStatsRead(t)
    \/ \E t \in Threads : RemoteStatsWrite(t)
    \/ \E t \in Threads : RemoteDeliver(t)

SpecRemote == InitRemote /\ [][NextRemote]_vars

\* Rules from proposal to enforcement: A and B connected, C on its own; the
\* agents propose and vote, the driver registers and applies.
InitRules ==
    /\ consensus = ConsensusInit("MAJORITY")
    /\ clast = NoCall
    /\ NetworkInit(<<"A", "B">>, {100})

NextRules ==
    \/ \E a \in AgentIds, drop \in Drops : ProposeRule(a, "r1", drop)
    \/ \E a \in Range(gossip.agents), approve \in BOOLEAN, drop \in Drops :
            VoteForRule(a, "r1", approve, drop)
    \/ \E a \in AgentIds : AgentApplyRule(a, "r1")
    \/ \E a \in AgentIds : RegisterProposed(a, "r1")
    \/ \E rule \in {r \in EngineRules : "status" \notin DOMAIN r} : RegisterRule(rule)
    \/ EngineApplyRule("r1")

SpecRules == InitRules /\ [][NextRules]_vars

\* One rule engine, the rule dicts handed to it, and the clock.
InitEngine ==
    /\ consensus = ConsensusInit("MAJORITY")
    /\ clast = NoCall
    /\ NetworkInit(<<>>, {100})

NextEngine ==
    \/ \E rule \in EngineRules : RegisterRule(rule)
    \/ \E rule_id \in RuleIds : EngineApplyRule(rule_id)
    \/ \E target \in Targets \cup {"None"} : CheckRuleApplicability(target)
    \/ \E d \in {1, DefaultDuration} : EngineTick(d)

SpecEngine == InitEngine /\ [][NextEngine]_vars

\* One coordinator of any scheme, one rule, every weight.
InitConsensus ==
    /\ consensus \in {ConsensusInit(t) : t \in ConsensusTypes}
    /\ clast = NoCall
    /\ NetworkInit(<<>>, {100})

NextConsensus ==
    \/ \E a \in Voters, v \in VoteChoices,
          rep \in {NoneArg} \cup {Given(w) : w \in Reputations} :
            ConsRegisterVote("r1", a, v, rep)
    \/ \E total \in 0..MaxTotal : ConsCheckConsensus("r1", total)

SpecConsensus == InitConsensus /\ [][NextConsensus]_vars

\* One MAJORITY coordinator, several rules: the vote table under register_vote alone.
InitVotes ==
    /\ consensus = ConsensusInit("MAJORITY")
    /\ clast = NoCall
    /\ NetworkInit(<<>>, {100})

NextVotes ==
    \E r \in RuleIds, a \in Voters,
       in \in {<<"APPROVE", NoneArg>>, <<"REJECT", NoneArg>>, <<"APPROVE", Given(90)>>} :
         ConsRegisterVote(r, a, in[1], in[2])

SpecVotes == InitVotes /\ [][NextVotes]_vars

(***************************************************************************)
(* Properties of the Consensus coordinator.                                *)
(***************************************************************************)
\* the votes recorded for the rule of the most recent call (no votes: the empty dict)
LastVotes ==
    IF clast.rule_id \in DOMAIN consensus.votes
    THEN consensus.votes[clast.rule_id] ELSE EmptyDict

LastVoteCount == Cardinality({a \in Voters : a \in DOMAIN LastVotes})

LastApproveCount ==
    Cardinality({a \in Voters : a \in DOMAIN LastVotes /\ LastVotes[a].vote = "APPROVE"})

\* check_consensus does not change the vote table, so after the call the table
\* is the one the call evaluated
LastCallDecided ==
    /\ clast.op = "check_consensus"
    /\ clast.rule_id \in DOMAIN consensus.votes
    /\ LastVoteCount * 100 >= clast.total_agents * QuorumPercent

\* C6 (as claimed): check_consensus(rule_id, total) returns APPROVED or REJECTED
\* exactly when the number of distinct voters recorded for the rule is at least
\* two thirds of total, and for a rule with votes below that it returns VOTING
\* with the ratio voters / total.
C6_DecidesAtTwoThirds ==
    clast.op = "check_consensus" =>
        /\ (clast.status \in {"APPROVED", "REJECTED"})
               <=> (3 * LastVoteCount >= 2 * clast.total_agents)
        /\ (LastVoteCount > 0 /\ 3 * LastVoteCount < 2 * clast.total_agents) =>
               /\ clast.status = "VOTING"
               /\ clast.ratio = <<LastVoteCount, clast.total_agents>>

\* C7: under MAJORITY, a check_consensus call that passed the quorum test returns
\* APPROVED iff the APPROVE votes are strictly more than half of the recorded
\* votes (a tie is REJECTED), with ratio approve_count / vote_count.
C7_MajorityDecision ==
    (LastCallDecided /\ consensus.consensus_type = "MAJORITY") =>
        /\ clast.status = IF 2 * LastApproveCount > LastVoteCount
                          THEN "APPROVED" ELSE "REJECTED"
        /\ clast.ratio = <<LastApproveCount, LastVoteCount>>
        /\ get_rule_status(consensus, clast.rule_id) = clast.status

\* C7 witness: votes {A: APPROVE, B: APPROVE, C: REJECT} evaluated for 3 agents
\* give APPROVED with ratio 2/3.
C7_Witness ==
    /\ LastCallDecided /\ consensus.consensus_type = "MAJORITY"
    /\ clast.total_agents = 3
    /\ DOMAIN LastVotes = {"A", "B", "C"}
    /\ LastVotes["A"].vote = "APPROVE" /\ LastVotes["B"].vote = "APPROVE"
    /\ LastVotes["C"].vote = "REJECT"
    /\ clast.status = "APPROVED" /\ clast.ratio = <<2, 3>>

LastApproveWeight ==
    SumOver([a \in Voters |-> IF a \in DOMAIN LastVotes /\ LastVotes[a].vote = "APPROVE"
                              THEN LastVotes[a].reputation ELSE 0], Voters)

LastTotalWeight ==
    SumOver([a \in Voters |-> IF a \in DOMAIN LastVotes
                              THEN LastVotes[a].reputation ELSE 0], Voters)

\* C8: under WEIGHTED, a check_consensus call that passed the quorum test returns
\* APPROVED iff the summed weight of the APPROVE votes is strictly more than half
\* of the summed weight of all recorded votes, the ratio being that weight
\* fraction; when every weight is 0 the ratio is 0 and the result is REJECTED.
C8_WeightedDecision ==
    (LastCallDecided /\ consensus.consensus_type = "WEIGHTED") =>
        /\ clast.status = IF 2 * LastApproveWeight > LastTotalWeight
                          THEN "APPROVED" ELSE "REJECTED"
        /\ LastTotalWeight > 0 => clast.ratio = <<LastApproveWeight, LastTotalWeight>>
        /\ LastTotalWeight = 0 => (clast.ratio = <<0, 1>> /\ clast.status = "REJECTED")

\* C8 witness: {A: 90: APPROVE, B: 10: REJECT} gives APPROVED with ratio 90/100.
C8_Witness ==
    /\ LastCallDecided /\ consensus.consensus_type = "WEIGHTED"
    /\ DOMAIN LastVotes = {"A", "B"}
    /\ LastVotes["A"] = [vote |-> "APPROVE", reputation |-> 90]
    /\ LastVotes["B"] = [vote |-> "REJECT", reputation |-> 10]
    /\ clast.status = "APPROVED" /\ clast.ratio = <<90, 100>>

\* C9: under UNANIMOUS, a check_consensus call that passed the quorum test returns
\* APPROVED iff every recorded vote is APPROVE; one REJECT gives REJECTED.
C9_UnanimousDecision ==
    (LastCallDecided /\ consensus.consensus_type = "UNANIMOUS") =>
        /\ (clast.status = "APPROVED") <=>
               (\A a \in DOMAIN LastVotes : LastVotes[a].vote = "APPROVE")
        /\ (\E a \in DOMAIN LastVotes : LastVotes[a].vote = "REJECT") =>
               clast.status = "REJECTED"
        /\ clast.status \in {"APPROVED", "REJECTED"}

\* C9 witness: two APPROVE votes and one REJECT, all three agents voted: REJECTED.
C9_Witness ==
    /\ LastCallDecided /\ consensus.consensus_type = "UNANIMOUS"
    /\ DOMAIN LastVotes = {"A", "B", "C"}
    /\ LastApproveCount = 2
    /\ clast.status = "REJECTED"

HasVote(votes, rule_id, agent_id) ==
    rule_id \in DOMAIN votes /\ agent_id \in DOMAIN votes[rule_id]

\* C10: a register_vote call leaves exactly one entry for (rule, voter), holding
\* the call's choice and weight (50 when no weight is given); the tally of the
\* rule grows by one only for a voter that had no vote, and the votes of other
\* voters and of other rules are unchanged.
C10_LastVoteWins ==
    [][clast'.op = "register_vote" =>
        LET r == clast'.rule_id
            a == clast'.agent_id
            old == consensus.votes
            new == consensus'.votes
        IN  /\ HasVote(new, r, a)
            /\ new[r][a].vote = clast'.vote
            /\ new[r][a].reputation = IF clast'.reputation.given
                                      THEN clast'.reputation.value ELSE 50
            /\ Cardinality(DOMAIN new[r]) =
                   Cardinality({b \in Voters : HasVote(old, r, b) \/ b = a})
            /\ \A q \in RuleIds, b \in Voters :
                   <<q, b>> # <<r, a>> =>
                       /\ HasVote(new, q, b) <=> HasVote(old, q, b)
                       /\ HasVote(old, q, b) => new[q][b] = old[q][b]
            /\ consensus'.consensus_type = consensus.consensus_type
    ]_vars

\* C10 witness: A's vote for r1 was replaced (APPROVE with weight 90 is now REJECT
\* with the default weight) while B's vote for r1 and A's vote for r2 are recorded.
C10_Witness ==
    /\ clast.op = "register_vote" /\ clast.overwrote
    /\ clast.rule_id = "r1" /\ clast.agent_id = "A" /\ clast.vote = "REJECT"
    /\ HasVote(consensus.votes, "r1", "B") /\ HasVote(consensus.votes, "r2", "A")
    /\ consensus.votes["r2"]["A"] = [vote |-> "APPROVE", reputation |-> 90]
    /\ consensus.votes["r1"]["A"] = [vote |-> "REJECT", reputation |-> 50]

(***************************************************************************)
(* Properties of the gossip service and the agents.                        *)
(***************************************************************************)
\* the calls that are one gossip.broadcast(M) of a message M the caller created
BroadcastOps ==
    {"announce_presence", "detect_threat", "propose_rule", "vote_for_rule", "broadcast"}

Registered == Range(gossip.agents)

\* the receive_message invocations of the last call that satisfy P
CallsWhere(P(_)) == {i \in 1..Len(glast.calls) : P(glast.calls[i])}

\* C1 (as claimed): with reliability 1.0, a broadcast(M) by a registered agent
\* invokes receive_message of every other registered agent exactly once, with
\* M's message_id, and never invokes the sender's receive_message.
C1_OneInvocationEach ==
    (glast.op \in BroadcastOps /\ gossip.reliability = 100) =>
        /\ \A b \in Registered \ {glast.by} :
               LET toB(c) == c.to = b IN
               /\ Cardinality(CallsWhere(toB)) = 1
               /\ \A i \in CallsWhere(toB) : glast.calls[i].message_id = glast.message_id
        /\ LET toSender(c) == c.to = glast.by IN CallsWhere(toSender) = {}

\* C1 (amended): with reliability 1.0, the delivery loop of broadcast(M) itself
\* hands M exactly once to every other registered agent and never to the
\* sender; the invocations made by broadcasts that handlers start are apart.
C1_LoopDeliversOnce ==
    (glast.op \in BroadcastOps /\ gossip.reliability = 100) =>
        /\ \A b \in Registered \ {glast.by} :
               LET toB(c) == c.to = b /\ c.depth = 1 IN
               /\ Cardinality(CallsWhere(toB)) = 1
               /\ \A i \in CallsWhere(toB) : glast.calls[i].message_id = glast.message_id
        /\ LET toSender(c) == c.to = glast.by /\ c.depth = 1 IN CallsWhere(toSender) = {}
        /\ glast.message_id \in DOMAIN gossip.message_cache

\* C1 witness: A proposed a rule; the loop handed the proposal to B, and B's
\* automatic vote, broadcast from B's handler, came back to A.
C1_Witness ==
    /\ glast.op = "propose_rule" /\ glast.by = "A" /\ gossip.reliability = 100
    /\ Len(glast.calls) = 2
    /\ glast.calls[1].to = "B" /\ glast.calls[1].depth = 1
    /\ glast.calls[1].msg_type = "RULE_PROPOSAL"
    /\ glast.calls[2].to = "A" /\ glast.calls[2].depth = 2
    /\ glast.calls[2].msg_type = "VOTE"

\* every registered agent knows every other one by the key its announce carried
AllAnnounced ==
    \A a \in Registered : \A b \in Registered \ {a} :
        /\ a \in DOMAIN agent[b].known_agents
        /\ agent[b].known_agents[a] = get_key_str(PublicKey(a))

\* C2 (as claimed): once every agent has announced itself, a message built by
\* create_message and broadcast with every delivery succeeding is accepted by
\* every other agent: receive_message returns True, the message is appended to
\* message_history and the sender's reputation is not reduced.
C2_AcceptedAfterAnnounce ==
    [][(/\ AllAnnounced
        /\ gossip.reliability = 100
        /\ glast'.op \in BroadcastOps)
       => \A b \in Registered \ {glast'.by} :
              /\ \E i \in 1..Len(glast'.calls) :
                     /\ glast'.calls[i].to = b
                     /\ glast'.calls[i].depth = 1
                     /\ glast'.calls[i].ret
              /\ Len(agent'[b].message_history) > Len(agent[b].message_history)
              /\ agent'[b].reputation[glast'.by] >= agent[b].reputation[glast'.by]
    ]_vars

\* C3 (as claimed): whatever the sequence of broadcast, send_message,
\* process_remote_message and sweep steps, receive_message of an agent is
\* invoked at most once per message_id.
C3_AtMostOncePerMessageId ==
    \A key \in DOMAIN recv : recv[key] <= 1

\* C3 (amended): a process_remote_message call whose message_id is in the dedup
\* cache (put there by a broadcast, a send_message or an earlier
\* process_remote_message, and not swept yet) invokes no receive_message and
\* changes nothing.
C3_CachedRemoteIsNoOp ==
    [][(/\ glast'.op = "process_remote_message"
        /\ ncalls' = ncalls + 1
        /\ glast'.message_id \in DOMAIN gossip.message_cache)
       => /\ glast'.calls = <<>>
          /\ recv' = recv
          /\ agent' = agent
          /\ gossip' = gossip
    ]_vars

\* C3 witness: a message from the transport was fanned out to A and B, arrived
\* again while cached, and the second call delivered nothing.
C3_Witness ==
    /\ glast.op = "process_remote_message" /\ glast.was_cached
    /\ glast.calls = <<>>
    /\ <<"A", glast.message_id>> \in DOMAIN recv /\ recv[<<"A", glast.message_id>>] = 1
    /\ <<"B", glast.message_id>> \in DOMAIN recv /\ recv[<<"B", glast.message_id>>] = 1
    /\ gossip.stats.messages_received = 1

\* the threads that carry message_id
Carrying(message_id) ==
    {t \in DOMAIN threads : threads[t].message.message_id = message_id}

\* the ids the threads carry
CarriedIds == {threads[t].message.message_id : t \in DOMAIN threads}

\* C4: of the connection threads that run process_remote_message with the same
\* message_id (no sweep in between), exactly one finds the id new, inserts it
\* and fans the message out, once to each local agent; every other one returns
\* without delivering.
C4_OneThreadFansOut ==
    \A id \in CarriedIds :
        LET S == Carrying(id)
            fresh == {t \in S : threads[t].pc = "insert" \/ threads[t].fresh}
        IN  /\ Cardinality(fresh) <= 1
            /\ \A t \in S \ fresh : threads[t].delivered = 0
            /\ \A a \in Registered :
                   <<a, id>> \in DOMAIN recv => recv[<<a, id>>] <= 1
            /\ (\A t \in S : threads[t].pc = "done") =>
                   /\ Cardinality(fresh) = 1
                   /\ \A t \in fresh : threads[t].delivered = Len(gossip.agents)
                   /\ \A a \in Registered :
                          <<a, id>> \in DOMAIN recv /\ recv[<<a, id>>] = 1

\* C4 witness: T2 arrived with the id T1 carries while T1 was fanning out, found
\* it cached and returned without delivering; a third thread is still waiting.
C4_Witness ==
    /\ DOMAIN threads = Threads
    /\ \A t \in Threads : threads[t].message.message_id = threads["T1"].message.message_id
    /\ threads["T1"].pc = "deliver" /\ threads["T1"].delivered = 1
    /\ threads["T2"].pc = "done" /\ threads["T2"].delivered = 0 /\ ~threads["T2"].fresh
    /\ threads["T3"].pc = "acquire"

\* C5: every entry of every agent's reputation table is an integer from 0 to
\* 100, whatever update_reputation calls were made and whatever messages
\* (announces, threat reports, messages with an invalid signature) arrived.
C5_ReputationInRange ==
    \A a \in AgentIds : \A p \in DOMAIN agent[a].reputation :
        agent[a].reputation[p] \in 0..100

\* C5 witness: B knew A and then got a message of A's whose signature failed,
\* which took A from 50 to 45 in B's table; then a direct update_reputation
\* call on another entry had to clamp (50 - 60 gave 0).
C5_Witness ==
    /\ glast.op = "update_reputation" /\ glast.by = "B"
    /\ glast.message_id = MessageId(RemoteAgent, 0)
    /\ "A" \in DOMAIN agent["B"].known_agents
    /\ recv[<<"B", MessageId("A", 0)>>] = 2
    /\ agent["B"].reputation["A"] = InitialReputation - InvalidSignaturePenalty
    /\ agent["B"].reputation[RemoteAgent] = 0

\* C11 (as claimed): check_consensus on a rule with zero recorded votes, when
\* zero voters meet the quorum condition (total_agents = 0), returns REJECTED
\* with ratio 0.
C11_ZeroVotesRejected ==
    (/\ clast.op = "check_consensus"
     /\ LastVoteCount = 0
     /\ LastVoteCount * 100 >= clast.total_agents * QuorumPercent)
    => /\ clast.status = "REJECTED"
       /\ clast.ratio[1] = 0

(***************************************************************************)
(* Properties of the rule lifecycle in the agents.                         *)
(***************************************************************************)
\* the rule dicts that exist
Refs == 1..Len(heap)

\* how many times the rule dict ref is in the agent's list of applied rules
Applied(ag, ref) == Cardinality({i \in 1..Len(ag.rules) : ag.rules[i] = ref})

\* C12 (as claimed): a rule's status changes once, from PROPOSED to APPROVED or
\* REJECTED; once it is APPROVED or REJECTED no later message changes it, and a
\* rule that is REJECTED is not applied afterwards.
C12_StatusDecidedOnce ==
    [][\A ref \in Refs :
          /\ heap[ref].status \in {"APPROVED", "REJECTED"} =>
                 heap'[ref].status = heap[ref].status
          /\ heap[ref].status = "REJECTED" =>
                 \A a \in AgentIds : Applied(agent'[a], ref) = Applied(agent[a], ref)
    ]_vars

\* C13 (as claimed): every rule that is enforced, by an entry in
\* RuleEngine.active_rules or by its place in an agent's list of applied rules,
\* has status APPROVED.
C13_EnforcedIsApproved ==
    /\ \A id \in DOMAIN engine.active_rules :
           Get(heap[engine.rules[id]], "status", "None") = "APPROVED"
    /\ \A a \in AgentIds : \A i \in 1..Len(agent[a].rules) :
           heap[agent[a].rules[i]].status = "APPROVED"

\* the status of the rule the engine holds under rule_id ("None": no status key)
EngineStatus(rule_id) == Get(heap[engine.rules[rule_id]], "status", "None")

\* C14: RuleEngine.apply_rule on an unregistered rule id, or on a rule whose
\* status is not APPROVED (PROPOSED, REJECTED, none), returns False and leaves
\* rules and active_rules as they were; BaseAgent.apply_rule with a rule id the
\* agent does not hold, or with a rule that is not APPROVED, returns False and
\* leaves the agent's applied rules as they were.
C14_RefusedApplyChangesNothing ==
    [][/\ \A rule_id \in RuleIds :
            (/\ EngineApplyRule(rule_id)
             /\ \/ rule_id \notin DOMAIN engine.rules
                \/ EngineStatus(rule_id) # "APPROVED")
            => /\ ~elast'.ret
               /\ engine' = engine
               /\ heap' = heap
       /\ \A a \in AgentIds, rule_id \in RuleIds :
            (/\ AgentApplyRule(a, rule_id)
             /\ \/ rule_id \notin DOMAIN agent[a].proposed_rules
                \/ heap[agent[a].proposed_rules[rule_id]].status # "APPROVED")
            => /\ ~elast'.ret
               /\ agent' = agent
               /\ heap' = heap
    ]_vars

\* C14 witness: C holds a rule that is still PROPOSED and B one that became
\* REJECTED; the engine has refused a registered rule that is not APPROVED and
\* the last call, C applying its PROPOSED rule, returned False.
C14_Witness ==
    /\ elast.op = "agent_apply_rule" /\ elast.target = "C" /\ elast.rule_id = "r1"
    /\ ~elast.ret
    /\ "r1" \in DOMAIN agent["C"].proposed_rules
    /\ heap[agent["C"].proposed_rules["r1"]].status = "PROPOSED"
    /\ agent["C"].rules = <<>>
    /\ "r1" \in DOMAIN engine.rules /\ EngineStatus("r1") # "APPROVED"
    /\ engine.active_rules = EmptyDict

(***************************************************************************)
(* Properties of the rule engine.                                          *)
(***************************************************************************)
\* the target of the rule the engine holds under rule_id ("None": no target)
EngineTarget(rule_id) == Get(heap[engine.rules[rule_id]].data, "target", "None")

\* C15: a rule applied at time t with duration d (3600 when it has none) gets
\* an active entry that expires at t + d; a check_rule_applicability call made
\* later than an entry's expiration removes the entry and does not return the
\* rule, and a call made before the expiration keeps the entry and returns the
\* rule when the queried target is the rule's target.
C15_ActiveUntilExpiration ==
    [][/\ \A rule_id \in RuleIds :
            (EngineApplyRule(rule_id) /\ elast'.ret) =>
                /\ rule_id \in DOMAIN engine'.active_rules
                /\ engine'.active_rules[rule_id] =
                       now + Get(heap[engine.rules[rule_id]].data, "duration", 3600)
       /\ \A target \in Targets \cup {"None"} :
            CheckRuleApplicability(target) =>
                \A id \in DOMAIN engine.active_rules :
                    /\ now > engine.active_rules[id] =>
                           /\ id \notin DOMAIN engine'.active_rules
                           /\ id \notin elast'.applicable
                    /\ now < engine.active_rules[id] =>
                           /\ id \in DOMAIN engine'.active_rules
                           /\ engine'.active_rules[id] = engine.active_rules[id]
                           /\ (EngineTarget(id) = target) <=> (id \in elast'.applicable)
    ]_vars

\* C15 witness: two seconds after r1 (duration 1) and r2 (no duration) were
\* applied at time 0, a query for their target removed r1 and returned r2 alone.
C15_Witness ==
    /\ elast.op = "check_rule_applicability" /\ elast.target = "h1"
    /\ now = 2
    /\ elast.expired = {"r1"}
    /\ elast.applicable = {"r2"}
    /\ engine.active_rules = [id \in {"r2"} |-> DefaultDuration]
    /\ EngineTarget("r1") = "h1"

\* the rule dict agent a holds under rule_id, in the state given by ag and hp
HeldRule(ag, hp, a, rule_id) == hp[ag[a].proposed_rules[rule_id]]

\* C16 (as claimed): once a rule an agent holds is APPROVED or REJECTED, its
\* proposal-time fields data, proposed_by, threat_id and timestamp never change,
\* whatever the agent receives afterwards, a second RULE_PROPOSAL with the same
\* rule id included.
C16_ProposalFieldsFrozen ==
    [][\A a \in AgentIds : \A rule_id \in DOMAIN agent[a].proposed_rules :
          HeldRule(agent, heap, a, rule_id).status \in {"APPROVED", "REJECTED"} =>
              LET old == HeldRule(agent, heap, a, rule_id)
                  new == HeldRule(agent', heap', a, rule_id)
              IN  /\ new.data = old.data
                  /\ new.proposed_by = old.proposed_by
                  /\ new.threat_id = old.threat_id
                  /\ new.timestamp = old.timestamp
    ]_vars

(***************************************************************************)
(* Properties of message authentication.                                   *)
(***************************************************************************)
\* the receive_message invocations of the step that returned False
RejectedCalls == {i \in 1..Len(glast'.calls) : ~glast'.calls[i].ret}

\* C17: when receive_message gets a message from a sender in known_agents whose
\* signature does not verify, it returns False, lowers that sender's reputation
\* by 5 (not below 0) and changes nothing else in the agent: message_history,
\* known_agents, threat_history, proposed_rules and the applied rules stay, no
\* rule dict changes and the agent broadcasts nothing.
C17_RejectionOnlyCostsReputation ==
    [][ncalls' = ncalls + 1 =>
         \A i \in RejectedCalls :
             LET b   == glast'.calls[i].to
                 s   == glast'.by
                 old == agent[b].reputation[s]
             IN  /\ s \in DOMAIN agent[b].known_agents
                 /\ agent'[b] = [agent[b] EXCEPT
                                     !.reputation[s] = IF old < 5 THEN 0 ELSE old - 5]
                 /\ heap' = heap
                 /\ forwarded' = forwarded
                 /\ \A j \in 1..Len(glast'.calls) : glast'.calls[j].depth = 1
                 /\ DOMAIN gossip'.message_cache \subseteq
                        (DOMAIN gossip.message_cache) \cup {glast'.message_id}
    ]_vars

\* C17 witness: B knows A and holds A at reputation 0; A's next broadcast is
\* rejected by B and A stays at 0.
C17_Witness ==
    /\ glast.op = "broadcast" /\ glast.by = "A"
    /\ Len(glast.calls) = 1 /\ glast.calls[1].to = "B" /\ ~glast.calls[1].ret
    /\ "A" \in DOMAIN agent["B"].known_agents
    /\ agent["B"].reputation["A"] = 0
    /\ Len(agent["B"].message_history) = 1

(***************************************************************************)
(* Messages of a sender nobody has heard of.  A remote node can put any    *)
(* sender_id and any signature into the dict it sends: none, one made with *)
(* a key of its own, or the sender's.                                      *)
(***************************************************************************)
\* the owner of a key pair that belongs to no agent
Forger == "Z"

\* what a remote node can send in the name of RemoteAgent
UntrustedMessages(timestamp) ==
    LET body(content, msg_type) == Message(RemoteAgent, content, msg_type, timestamp)
        bodies ==
            {body([agent_id |-> RemoteAgent,
                   public_key |-> get_key_str(PublicKey(RemoteAgent))], "AGENT_ANNOUNCE"),
             body([id |-> "t9", data |-> [type |-> "scan"], detected_by |-> RemoteAgent,
                   timestamp |-> timestamp], "THREAT"),
             body([rule |-> RuleDict("r1", [type |-> "FIREWALL", action |-> "BLOCK",
                                            duration |-> 1],
                                     RemoteAgent, "None", timestamp)], "RULE_PROPOSAL"),
             body(VoteDict("r1", TRUE, RemoteAgent, timestamp), "VOTE")}
        text(m) == [to_string(<<>>, m) EXCEPT
                        !.content = IF DOMAIN m.content = {"rule"}
                                    THEN m.content.rule ELSE m.content]
    IN  UNION {{to_dict([m EXCEPT !.signature = NoSignature]),
                to_dict([m EXCEPT !.signature = sign_message(text(m), Forger)]),
                to_dict([m EXCEPT !.signature = sign_message(text(m), RemoteAgent)])} :
               m \in bodies}

InitTrust ==
    /\ consensus = ConsensusInit("MAJORITY")
    /\ clast = NoCall
    /\ NetworkInit(<<"A", "B">>, {100})

NextTrust ==
    \/ \E timestamp \in 0..MaxTime :
         \E data \in UntrustedMessages(timestamp) : ProcessRemote(data)
    \/ \E a \in Range(gossip.agents) : ProposeRule(a, "r1", {})

SpecTrust == InitTrust /\ [][NextTrust]_vars

\* the message a process_remote_message step has just taken in
Taken == gossip'.message_cache[glast'.message_id].message

\* what the handler of message m leaves in agent b
Handled(b, m) ==
    CASE m.msg_type = "AGENT_ANNOUNCE" ->
            /\ m.sender_id \in DOMAIN agent'[b].known_agents
            /\ agent'[b].known_agents[m.sender_id] = m.content.public_key
            /\ agent'[b].reputation[m.sender_id] = InitialReputation
      [] m.msg_type = "THREAT" ->
            /\ Len(agent'[b].threat_history) = Len(agent[b].threat_history) + 1
            /\ m.content \in Range(agent'[b].threat_history)
      [] m.msg_type = "RULE_PROPOSAL" ->
            /\ heap'[m.content.ref].id \in DOMAIN agent'[b].proposed_rules
            /\ agent'[b].proposed_rules[heap'[m.content.ref].id] = m.content.ref
      [] m.msg_type = "VOTE" ->
            m.content.rule_id \in DOMAIN agent[b].proposed_rules =>
                m.content \in Range(heap'[agent[b].proposed_rules[m.content.rule_id]].votes)

\* C18: a message whose sender is not in the receiver's known_agents is
\* processed whatever its signature is (none, one made with another key, or a
\* valid one): receive_message returns True, the message is appended to
\* message_history and the handler of its type runs, so a sender nobody has
\* heard of registers a key, adds a threat, adds a proposal or casts a vote.
C18_UnknownSenderIsTrusted ==
    [][(/\ ncalls' = ncalls + 1
        /\ glast'.op = "process_remote_message"
        /\ ~glast'.was_cached) =>
         \A b \in Range(gossip.agents) :
             Taken.sender_id \notin DOMAIN agent[b].known_agents =>
                 /\ \E i \in 1..Len(glast'.calls) :
                        /\ glast'.calls[i].to = b
                        /\ glast'.calls[i].message_id = Taken.message_id
                        /\ glast'.calls[i].depth = 1
                        /\ glast'.calls[i].ret
                 /\ \E k \in (Len(agent[b].message_history) + 1)
                               ..Len(agent'[b].message_history) :
                        agent'[b].message_history[k] = Taken
                 /\ Handled(b, Taken)
    ]_vars

\* C18 witness: A holds rule r1 and takes a vote on it that came in the name
\* of X without any signature, X being unknown to A; B has taken a threat or
\* a proposal in the name of X that was signed with the key of Z.
C18_Witness ==
    /\ glast.op = "process_remote_message"
    /\ glast.by = RemoteAgent
    /\ \E i \in 1..Len(agent["A"].message_history) :
          LET m == agent["A"].message_history[i]
          IN  /\ m.sender_id = RemoteAgent
              /\ m.msg_type = "VOTE"
              /\ m.signature = NoSignature
              /\ "r1" \in DOMAIN agent["A"].proposed_rules
              /\ m.content \in Range(heap[agent["A"].proposed_rules["r1"]].votes)
    /\ \E i \in 1..Len(agent["B"].message_history) :
          LET m == agent["B"].message_history[i]
          IN  /\ m.sender_id = RemoteAgent
              /\ m.msg_type \in {"THREAT", "RULE_PROPOSAL"}
              /\ m.signature.signer = Forger

(***************************************************************************)
(* agents/crypto_utils.py as pure functions: the arguments are drawn at    *)
(* the start, sign_message and verify_signature are applied to them.       *)
(***************************************************************************)
\* the owners of the key pairs of generate_key_pair
KeyOwners == {"A", "B"}

\* str messages, one of them with a lone surrogate; the bytes of the
\* encodable ones; None
CryptoMessages ==
    {[text |-> "m1"], [text |-> "m2"], [text |-> "m3", unencodable |-> TRUE],
     [bytes |-> [text |-> "m1"]], [bytes |-> [text |-> "m2"]], NoneValue}

\* bytes that no key has produced
JunkSignature == [signer |-> "None", digest |-> [junk |-> TRUE]]

\* public_key = None
NoKey == [owner |-> "None", form |-> "none"]

\* what a caller can pass as public_key: a key object, its PEM text, None
CryptoKeys ==
    {PublicKey(o) : o \in KeyOwners} \cup {get_key_str(PublicKey(o)) : o \in KeyOwners}
        \cup {NoKey}

InitCrypto ==
    /\ consensus = ConsensusInit("MAJORITY")
    /\ clast = NoCall
    /\ agent = [a \in AgentIds |-> AgentInit]
    /\ gossip = GossipInit(<<>>, 100)
    /\ heap = <<>>
    /\ forwarded = <<>>
    /\ now = 0
    /\ recv = EmptyDict
    /\ glast = [op |-> "none", by |-> "-", message_id |-> <<"-", 0>>, was_cached |-> FALSE,
                calls |-> <<>>, sends |-> <<>>, attempts |-> <<>>, ret |-> TRUE]
    /\ ncalls = 0
    /\ threads = EmptyDict
    /\ cache_lock = "free"
    /\ engine = RuleEngineInit
    /\ elast = NoEngineCall
    /\ wire = NoWire
    /\ nodes = EmptyDict
    /\ service = ServiceInit
    /\ crypto \in [message : CryptoMessages, owner : KeyOwners,
                   signature : {NoSignature, JunkSignature}, signed : {FALSE},
                   message2 : CryptoMessages, public_key : CryptoKeys,
                   op : {"none"}, raised : {FALSE}, ret : {FALSE}]

\* signature = sign_message(message, private_key of owner)
SignMessage ==
    /\ crypto.op = "none"
    /\ crypto' = IF sign_message_raises(crypto.message)
                 THEN [crypto EXCEPT !.op = "sign_message", !.raised = TRUE]
                 ELSE [crypto EXCEPT !.op = "sign_message", !.raised = FALSE,
                                     !.signature = sign_message(crypto.message, crypto.owner),
                                     !.signed = TRUE]
    /\ UNCHANGED <<consensus_vars, network_vars, engine_vars, wire, nodes, service>>

\* ret = verify_signature(message2, signature, public_key)
VerifySignature ==
    /\ crypto.op # "verify_signature"
    /\ crypto' = IF verify_signature_raises(crypto.message2)
                 THEN [crypto EXCEPT !.op = "verify_signature", !.raised = TRUE,
                                     !.ret = FALSE]
                 ELSE [crypto EXCEPT !.op = "verify_signature", !.raised = FALSE,
                                     !.ret = verify_signature(crypto.message2,
                                                              crypto.signature,
                                                              crypto.public_key)]
    /\ UNCHANGED <<consensus_vars, network_vars, engine_vars, wire, nodes, service>>

NextCrypto == SignMessage \/ VerifySignature

SpecCrypto == InitCrypto /\ [][NextCrypto]_vars

\* a verify_signature call has just been made
Verified == crypto.op = "verify_signature"

\* C19: verify_signature always returns a boolean and never raises; an
\* invalid signature, a signature made with another key, a missing (None)
\* signature and a public_key that is no usable key object all give False.
C19_VerifyNeverRaises ==
    Verified =>
        /\ ~crypto.raised
        /\ crypto.ret \in BOOLEAN
        /\ (\/ crypto.signature \in {NoSignature, JunkSignature}
            \/ crypto.signature.signer # crypto.public_key.owner
            \/ crypto.public_key.form # "key") => ~crypto.ret

WireRule == RuleDict("r1", [type |-> "FIREWALL", action |-> "BLOCK", duration |-> 1],
                     "A", "None", 0)

\* <<content, msg_type>> of the messages that are serialized
WireContents ==
    {<<[test |-> "data"], "TEST_MESSAGE">>,
     <<[id |-> "t1", data |-> [type |-> "scan"], detected_by |-> "A", timestamp |-> 0],
       "THREAT">>,
     <<VoteDict("r1", TRUE, "A", 0), "VOTE">>,
     <<[ref |-> 1], "RULE_PROPOSAL">>}

\* the Message objects: unsigned, signed by the sender, signed with a foreign key
WireMessages ==
    UNION {LET m == Message(a, c[1], c[2], 0)
           IN  {m, [m EXCEPT !.signature = sign_message(to_string(<<WireRule>>, m), a)],
                [m EXCEPT !.signature = sign_message(to_string(<<WireRule>>, m), Forger)]} :
           a \in {"A", "B"}, c \in WireContents}

InitWire ==
    /\ consensus = ConsensusInit("MAJORITY")
    /\ clast = NoCall
    /\ agent = [a \in AgentIds |-> AgentInit]
    /\ gossip = GossipInit(<<>>, 100)
    /\ heap = <<WireRule>>
    /\ forwarded = <<>>
    /\ now = 0
    /\ recv = EmptyDict
    /\ glast = [op |-> "none", by |-> "-", message_id |-> <<"-", 0>>, was_cached |-> FALSE,
                calls |-> <<>>, sends |-> <<>>, attempts |-> <<>>, ret |-> TRUE]
    /\ ncalls = 0
    /\ threads = EmptyDict
    /\ cache_lock = "free"
    /\ engine = RuleEngineInit
    /\ elast = NoEngineCall
    /\ crypto = NoCryptoCall
    /\ nodes = EmptyDict
    /\ service = ServiceInit
    /\ wire \in [op : {"message"}, sent : WireMessages, received : {NoWire}]

\* received = Message.from_dict(sent.to_dict())
RoundTrip ==
    /\ wire.op = "message"
    /\ LET d == from_dict(World({}, <<>>), to_dict(wire.sent))
       IN  /\ wire' = [wire EXCEPT !.op = "round_trip", !.received = d.m]
           /\ heap' = d.w.heap
    /\ UNCHANGED <<agent, gossip, forwarded, now, recv, glast, ncalls, consensus_vars,
                   thread_vars, engine_vars, crypto, nodes, service>>

\* NetworkTransport.send_message and _handle_client:
\* received = Message.from_dict(pickle.loads(pickle.dumps(sent.to_dict())))
WireTrip ==
    /\ wire.op = "message"
    /\ LET d == from_dict(World({}, <<>>), pickle_dumps(heap, to_dict(wire.sent)))
       IN  /\ wire' = [wire EXCEPT !.op = "wire_trip", !.received = d.m]
           /\ heap' = d.w.heap
    /\ UNCHANGED <<agent, gossip, forwarded, now, recv, glast, ncalls, consensus_vars,
                   thread_vars, engine_vars, crypto, nodes, service>>

NextWire == RoundTrip \/ WireTrip \/ Tick

SpecWire == InitWire /\ [][NextWire]_vars

\* the signatures a Message object can carry
WireSignatures == {m.signature : m \in WireMessages}

\* C21: to_string depends on sender_id, content, msg_type, timestamp and
\* message_id and never on the signature, and from_dict(to_dict(m)) has the
\* same five fields, the same to_string and the same signature as m, so a
\* signature that verified before serialization verifies after it.
C21_RoundTripKeepsPayload ==
    wire.op \in {"round_trip", "wire_trip"} =>
        LET m == wire.sent
            r == wire.received
        IN  /\ \A x \in WireSignatures :
                   to_string(heap, [m EXCEPT !.signature = x]) = to_string(heap, m)
            /\ r.sender_id = m.sender_id
            /\ Resolve(heap, r.content) = Resolve(heap, m.content)
            /\ r.msg_type = m.msg_type
            /\ r.timestamp = m.timestamp
            /\ r.message_id = m.message_id
            /\ to_string(heap, r) = to_string(heap, m)
            /\ r.signature = m.signature
            /\ \A o \in {"A", "B", Forger} :
                   verify_signature(to_string(heap, r), r.signature, PublicKey(o))
                       = verify_signature(to_string(heap, m), m.signature, PublicKey(o))

\* C21 witness: a RULE_PROPOSAL that A signed at time 0 went through pickle
\* one second later; the receiver holds a rule dict of its own and A's
\* signature verifies on what it received.
C21_Witness ==
    /\ wire.op = "wire_trip"
    /\ now > wire.sent.timestamp
    /\ wire.sent.msg_type = "RULE_PROPOSAL"
    /\ wire.received.content # wire.sent.content
    /\ verify_signature(to_string(heap, wire.received), wire.received.signature,
                        PublicKey("A"))

\* C22: an accepted AGENT_ANNOUNCE stores the sender's public key and gives the
\* sender reputation 50 only when the receiver has no reputation for it yet; a
\* reputation the receiver already holds for the sender stays as it is.
C22_AnnounceKeepsReputation ==
    [][ncalls' = ncalls + 1 =>
         \A i \in 1..Len(glast'.calls) :
             LET c == glast'.calls[i]
                 s == glast'.by
             IN  (c.msg_type = "AGENT_ANNOUNCE" /\ c.ret /\ c.depth = 1) =>
                     /\ s \in DOMAIN agent'[c.to].known_agents
                     /\ agent'[c.to].known_agents[s] = get_key_str(PublicKey(s))
                     /\ agent'[c.to].reputation[s] =
                            IF s \in DOMAIN agent[c.to].reputation
                            THEN agent[c.to].reputation[s] ELSE InitialReputation
    ]_vars

(***************************************************************************)
(* tests/test_network.py: three agents on one GossipProtocol announce      *)
(* themselves, report threats and broadcast test messages; deliveries      *)
(* succeed or, at a reliability below 1.0, fail.                           *)
(***************************************************************************)
InitAnnounce ==
    /\ consensus = ConsensusInit("MAJORITY")
    /\ clast = NoCall
    /\ NetworkInit(<<"A", "B", "C">>, {100, 50})

NextAnnounce ==
    \/ \E a \in AgentIds :
         \E drop \in SUBSET ({a} \X (Range(gossip.agents) \ {a})) : AnnouncePresence(a, drop)
    \/ \E a \in AgentIds : DetectThreat(a, "t1", {})
    \/ \E a \in AgentIds : BroadcastTest(a, {})

SpecAnnounce == InitAnnounce /\ [][NextAnnounce]_vars

\* agent b has taken in an announcement of agent a
Heard(b, a) ==
    \E i \in 1..Len(agent[b].message_history) :
        /\ agent[b].message_history[i].sender_id = a
        /\ agent[b].message_history[i].msg_type = "AGENT_ANNOUNCE"

\* C23: an agent's known_agents holds the registered agents whose announcement
\* was delivered to it and never its own id; so once every registered agent
\* has announced itself and every delivery succeeded, each agent knows exactly
\* all the other registered agents.
C23_EveryoneKnowsTheOthers ==
    LET registered == Range(gossip.agents)
    IN  /\ \A b \in registered :
               /\ b \notin DOMAIN agent[b].known_agents
               /\ DOMAIN agent[b].known_agents = {a \in registered \ {b} : Heard(b, a)}
        /\ (\A b \in registered : \A a \in registered \ {b} : Heard(b, a)) =>
               \A b \in registered : DOMAIN agent[b].known_agents = registered \ {b}

\* C23 witness: A, B and C have announced themselves and everybody has heard
\* everybody else.
C23_Witness ==
    /\ glast.op = "announce_presence"
    /\ \A b \in Range(gossip.agents) : \A a \in Range(gossip.agents) \ {b} : Heard(b, a)
    /\ DOMAIN agent["A"].known_agents = {"B", "C"}
    /\ DOMAIN agent["C"].known_agents = {"A", "B"}

\* the votes for rule_id that agent b had taken in before the step
VotesTaken(b, rule_id) ==
    {agent[b].message_history[i].content : i \in
        {k \in 1..Len(agent[b].message_history) :
            /\ agent[b].message_history[k].msg_type = "VOTE"
            /\ agent[b].message_history[k].content.rule_id = rule_id}}

\* C24: a VOTE that reached an agent before the RULE_PROPOSAL it refers to is
\* not lost: when the agent comes to hold the rule, every vote for it that the
\* agent has taken in before is part of the agent's tally of that rule.
C24_EarlyVotesAreKept ==
    [][\A b \in Range(gossip.agents) :
          \A rule_id \in (DOMAIN agent'[b].proposed_rules) \ (DOMAIN agent[b].proposed_rules) :
              VotesTaken(b, rule_id) \subseteq
                  Range(heap'[agent'[b].proposed_rules[rule_id]].votes)
    ]_vars

(***************************************************************************)
(* Two processes, each with one agent on a GossipProtocol of its own.  The *)
(* same dicts (one RULE_PROPOSAL and the votes on it) reach both through   *)
(* NetworkTransport._handle_client, each process in an order of its own.   *)
(***************************************************************************)
\* the processes
Nodes == {"N1", "N2"}

\* the agent that runs in a process
NodeAgent(n) == IF n = "N1" THEN "A" ELSE "B"

\* the state of a process after construction
NodeInit(n) ==
    [agent |-> [a \in AgentIds |-> AgentInit], gossip |-> GossipInit(<<NodeAgent(n)>>, 100),
     heap |-> <<>>, forwarded |-> <<>>, recv |-> EmptyDict, now |-> 0, calls |-> <<>>,
     depth |-> 0, drop |-> {}, ids |-> <<>>, raised |-> FALSE, sends |-> <<>>,
     attempts |-> <<>>]

\* what the other nodes send: X proposes r1, Y approves it, Z rejects it
NodeMessages ==
    LET signed(sender_id, content, msg_type, text) ==
            to_dict([Message(sender_id, content, msg_type, 0) EXCEPT
                         !.signature = sign_message(
                             [to_string(<<>>, Message(sender_id, content, msg_type, 0))
                                  EXCEPT !.content = text], sender_id)])
        rule == RuleDict("r1", [type |-> "FIREWALL", action |-> "BLOCK", duration |-> 1],
                         RemoteAgent, "None", 0)
    IN  {signed(RemoteAgent, [rule |-> rule], "RULE_PROPOSAL", rule),
         signed("Y", VoteDict("r1", TRUE, "Y", 0), "VOTE", VoteDict("r1", TRUE, "Y", 0)),
         signed("Z", VoteDict("r1", FALSE, "Z", 0), "VOTE", VoteDict("r1", FALSE, "Z", 0))}

InitNodes ==
    /\ consensus = ConsensusInit("MAJORITY")
    /\ clast = NoCall
    /\ agent = [a \in AgentIds |-> AgentInit]
    /\ gossip = GossipInit(<<>>, 100)
    /\ heap = <<>>
    /\ forwarded = <<>>
    /\ now = 0
    /\ recv = EmptyDict
    /\ glast = [op |-> "none", by |-> "-", message_id |-> <<"-", 0>>, was_cached |-> FALSE,
                calls |-> <<>>, sends |-> <<>>, attempts |-> <<>>, ret |-> TRUE]
    /\ ncalls = 0
    /\ threads = EmptyDict
    /\ cache_lock = "free"
    /\ engine = RuleEngineInit
    /\ elast = NoEngineCall
    /\ crypto = NoCryptoCall
    /\ wire = NoWire
    /\ nodes = [n \in Nodes |-> NodeInit(n)]
    /\ service = ServiceInit

\* NetworkTransport._handle_client of process n takes a dict it has not seen
NodeReceive(n, data) ==
    /\ data.message_id \notin DOMAIN nodes[n].gossip.message_cache
    /\ LET d == from_dict(nodes[n], data)
       IN  nodes' = [nodes EXCEPT ![n] = [process_remote_message(d.w, d.m) EXCEPT
                                             !.calls = <<>>, !.sends = <<>>,
                                             !.attempts = <<>>]]
    /\ UNCHANGED <<consensus_vars, network_vars, engine_vars, crypto, wire, service>>

NextNodes == \E n \in Nodes, data \in NodeMessages : NodeReceive(n, data)

SpecNodes == InitNodes /\ [][NextNodes]_vars

\* process n has received every message
AllReceived(n) ==
    \A data \in NodeMessages : data.message_id \in DOMAIN nodes[n].gossip.message_cache

\* the status the agent of process n holds for rule r1
NodeStatus(n) ==
    LET ag == nodes[n].agent[NodeAgent(n)]
    IN  IF "r1" \in DOMAIN ag.proposed_rules
        THEN nodes[n].heap[ag.proposed_rules["r1"]].status ELSE "none"

\* C25: once every agent has received the same RULE_PROPOSAL and the same
\* VOTE messages for a rule, all agents hold the same status for it, APPROVED
\* or REJECTED, whatever the order of delivery to each was.
C25_SameMessagesSameStatus ==
    (\A n \in Nodes : AllReceived(n)) =>
        /\ \A n \in Nodes : NodeStatus(n) \in {"APPROVED", "REJECTED"}
        /\ \A n1 \in Nodes, n2 \in Nodes : NodeStatus(n1) = NodeStatus(n2)

(***************************************************************************)
(* One process whose agent A hears of three peers, is handed a proposal    *)
(* and votes on it: Y approves, Z rejects, Y approves once more.           *)
(***************************************************************************)
\* the dicts that arrive, in any order
TallyMessages ==
    LET signed(sender_id, content, msg_type, timestamp, text) ==
            to_dict([Message(sender_id, content, msg_type, timestamp) EXCEPT
                         !.signature = sign_message(
                             [to_string(<<>>, Message(sender_id, content, msg_type, timestamp))
                                  EXCEPT !.content = text], sender_id)])
        announce(a) == [agent_id |-> a, public_key |-> get_key_str(PublicKey(a))]
        vote(a, approve, timestamp) ==
            signed(a, VoteDict("r1", approve, a, timestamp), "VOTE", timestamp,
                   VoteDict("r1", approve, a, timestamp))
        rule == RuleDict("r1", [type |-> "FIREWALL", action |-> "BLOCK", duration |-> 1],
                         "P", "None", 0)
    IN  {signed(a, announce(a), "AGENT_ANNOUNCE", 0, announce(a)) : a \in {"B", "C", "X"}}
            \cup {signed("P", [rule |-> rule], "RULE_PROPOSAL", 0, rule),
                  vote("Y", TRUE, 0), vote("Z", FALSE, 0), vote("Y", TRUE, 1)}

InitTally ==
    /\ consensus = ConsensusInit("MAJORITY")
    /\ clast = NoCall
    /\ agent = [a \in AgentIds |-> AgentInit]
    /\ gossip = GossipInit(<<>>, 100)
    /\ heap = <<>>
    /\ forwarded = <<>>
    /\ now = 0
    /\ recv = EmptyDict
    /\ glast = [op |-> "none", by |-> "-", message_id |-> <<"-", 0>>, was_cached |-> FALSE,
                calls |-> <<>>, sends |-> <<>>, attempts |-> <<>>, ret |-> TRUE]
    /\ ncalls = 0
    /\ threads = EmptyDict
    /\ cache_lock = "free"
    /\ engine = RuleEngineInit
    /\ elast = NoEngineCall
    /\ crypto = NoCryptoCall
    /\ wire = NoWire
    /\ nodes = [n \in {"N1"} |-> NodeInit(n)]
    /\ service = ServiceInit

NextTally == \E data \in TallyMessages : NodeReceive("N1", data)

SpecTally == InitTally /\ [][NextTally]_vars

\* the rule dict agent A of process N1 holds for r1, before and after the step
TallyHeld == "r1" \in DOMAIN nodes["N1"].agent["A"].proposed_rules

TallyRule == nodes["N1"].heap[nodes["N1"].agent["A"].proposed_rules["r1"]]

TallyRuleAfter == nodes'["N1"].heap[nodes'["N1"].agent["A"].proposed_rules["r1"]]

\* the message the step has taken in
TallyTaken ==
    LET id == CHOOSE x \in DOMAIN nodes'["N1"].gossip.message_cache :
                  x \notin DOMAIN nodes["N1"].gossip.message_cache
    IN  nodes'["N1"].gossip.message_cache[id].message

\* C26: when a vote arrives for a PROPOSED rule the agent holds, the vote is
\* appended; if the votes are now at least half of the agent's known agents the
\* rule is decided, APPROVED when the approvals are more than half of the votes
\* and REJECTED otherwise (a tie is REJECTED), and an APPROVED rule is applied
\* at once; below the threshold the status stays PROPOSED.
C26_VoteDecidesAtHalf ==
    [][(/\ nodes' # nodes
        /\ TallyTaken.msg_type = "VOTE"
        /\ TallyHeld
        /\ TallyRule.status = "PROPOSED") =>
         LET votes == Append(TallyRule.votes, TallyTaken.content)
             known == Cardinality(DOMAIN nodes["N1"].agent["A"].known_agents)
             ag    == nodes["N1"].agent["A"]
             ag2   == nodes'["N1"].agent["A"]
         IN  /\ TallyRuleAfter.votes = votes
             /\ IF 2 * Len(votes) >= known
                THEN IF 2 * Approvals(votes) > Len(votes)
                     THEN /\ TallyRuleAfter.status = "APPROVED"
                          /\ ag2.rules = Append(ag.rules, ag.proposed_rules["r1"])
                     ELSE /\ TallyRuleAfter.status = "REJECTED"
                          /\ ag2.rules = ag.rules
                ELSE /\ TallyRuleAfter.status = "PROPOSED"
                     /\ ag2.rules = ag.rules
    ]_vars

\* C26 witness: A knows three agents; Y's vote left the rule PROPOSED and Z's
\* vote made a tie of one approval in two votes, which is REJECTED.
C26_Witness ==
    /\ TallyHeld
    /\ Cardinality(DOMAIN nodes["N1"].agent["A"].known_agents) = 3
    /\ Len(TallyRule.votes) = 2
    /\ TallyRule.votes[1].voter = "Y"
    /\ TallyRule.votes[2].voter = "Z"
    /\ TallyRule.status = "REJECTED"
    /\ nodes["N1"].agent["A"].rules = <<>>

\* C27: in an agent's tally of a rule each voter is counted at most once, the
\* voter's last vote standing for the voter, so that repeated votes of one
\* voter neither reach the threshold nor change the majority by themselves.
C27_OneVotePerVoter ==
    TallyHeld =>
        \A i \in 1..Len(TallyRule.votes), j \in 1..Len(TallyRule.votes) :
            TallyRule.votes[i].voter = TallyRule.votes[j].voter => i = j

(***************************************************************************)
(* The rule engine with APPROVED rules of every action kind: the four it   *)
(* executes, the THROTTLE and LOG of the anomaly templates, and none.      *)
(***************************************************************************)
\* the action kinds of propose_rule_for_anomaly that the engine has no entry for
TemplateActions == {"THROTTLE", "LOG"}

\* APPROVED rule dicts, one per rule id and action kind, and one without action
ActionRules ==
    {[id |-> id, status |-> "APPROVED",
      data |-> [type |-> "MONITOR", target |-> "h1", action |-> action, duration |-> 1]] :
        id \in RuleIds, action \in RuleActions \cup TemplateActions}
    \cup {[id |-> "r1", status |-> "APPROVED", data |-> [type |-> "MONITOR", target |-> "h1"]]}

NextActions ==
    \/ \E rule \in ActionRules : RegisterRule(rule)
    \/ \E rule_id \in RuleIds : EngineApplyRule(rule_id)

SpecActions == InitEngine /\ [][NextActions]_vars

\* the action of the rule the engine holds under rule_id
EngineAction(rule_id) == Get(heap[engine.rules[rule_id]].data, "action", DefaultAction)

\* C28: RuleEngine.apply_rule on an APPROVED rule whose action is none of
\* ALERT, BLOCK, ISOLATE, SCAN (THROTTLE and LOG among them) returns False,
\* adds no active entry and leaves the rule APPROVED.
C28_UnknownActionRefused ==
    [][\A rule_id \in RuleIds :
          (/\ EngineApplyRule(rule_id)
           /\ rule_id \in DOMAIN engine.rules
           /\ EngineStatus(rule_id) = "APPROVED"
           /\ EngineAction(rule_id) \notin {"ALERT", "BLOCK", "ISOLATE", "SCAN"})
          => /\ ~elast'.ret
             /\ engine'.active_rules = engine.active_rules
             /\ engine'.rules = engine.rules
             /\ heap' = heap
             /\ heap'[engine'.rules[rule_id]].status = "APPROVED"
    ]_vars

\* C28 witness: the engine holds the APPROVED rules r1 (THROTTLE) and r2 (LOG);
\* it has just refused r2 and nothing is active.
C28_Witness ==
    /\ elast.op = "apply_rule" /\ elast.rule_id = "r2" /\ ~elast.ret
    /\ DOMAIN engine.rules = {"r1", "r2"}
    /\ EngineAction("r1") = "THROTTLE" /\ EngineStatus("r1") = "APPROVED"
    /\ EngineAction("r2") = "LOG" /\ EngineStatus("r2") = "APPROVED"
    /\ engine.active_rules = EmptyDict

(***************************************************************************)
(* Anomaly reports from the behaviour profiler of another node:            *)
(* anomaly of three kinds, severities at and above the threshold or none.  *)
(***************************************************************************)
\* the severities an anomaly report carries
Severities == {70, 71}

\* the anomaly dicts, built like those of check_for_anomalies
Anomalies ==
    LET anomaly(type) ==
            [id |-> "a1", host_id |-> "h1", type |-> type, description |-> "d",
             details |-> [source |-> "h1", target |-> "h2", average_rate |-> 1]]
        types == {"activity_spike", "new_connection", "port_scan"}
    IN  {anomaly("port_scan")}
            \cup {[severity |-> s] @@ anomaly(t) : t \in types, s \in Severities}

\* what the remote agent's node sends
AnomalyMessages(timestamp) ==
    {LET m == Message(RemoteAgent, an, "ANOMALY_DETECTED", timestamp)
     IN  to_dict([m EXCEPT !.signature = sign_message(to_string(<<>>, m), RemoteAgent)]) :
     an \in Anomalies}

\* NetworkTransport._handle_client with a message whose handlers draw rule ids
ProcessRemoteWith(data, ids) ==
    /\ ncalls < MaxCalls
    /\ LET d == from_dict(World({}, ids), data)
       IN  Commit(process_remote_message(d.w, d.m), "process_remote_message",
                  data.sender_id, data.message_id, TRUE)

InitAnomaly ==
    /\ consensus = ConsensusInit("MAJORITY")
    /\ clast = NoCall
    /\ \E registered \in {<<"A">>, <<"A", "B">>} : NetworkInit(registered, {100})

NextAnomaly ==
    \/ \E timestamp \in 0..MaxTime :
         \E data \in AnomalyMessages(timestamp), id2 \in RuleIds :
            ProcessRemoteWith(data, <<"r1", id2>>)
    \/ \E timestamp \in 0..MaxTime :
         \E data \in {m \in RemoteMessages(timestamp) : m.msg_type = "AGENT_ANNOUNCE"} :
            ProcessRemote(data)

SpecAnomaly == InitAnomaly /\ [][NextAnomaly]_vars

\* the rule dicts of hp that agent b has proposed
ProposedBy(hp, b) == {i \in DOMAIN hp : hp[i].proposed_by = b}

\* the deliveries of a RULE_PROPOSAL of agent b that the step has made
ProposalCalls(b) ==
    {i \in 1..Len(glast'.calls) :
        /\ glast'.calls[i].msg_type = "RULE_PROPOSAL"
        /\ glast'.calls[i].message_id = MessageId(b, now)}

\* C29: an agent that accepts an ANOMALY_DETECTED message records the anomaly
\* in detected_anomalies; when the severity is greater than 70 it proposes
\* exactly one new rule, created PROPOSED and broadcast as RULE_PROPOSAL, and
\* when the severity is 70 or less or missing it proposes none.
C29_SevereAnomalyProposesOneRule ==
    [][(/\ ncalls' = ncalls + 1
        /\ glast'.op = "process_remote_message"
        /\ ~glast'.was_cached
        /\ Taken.msg_type = "ANOMALY_DETECTED") =>
         \A b \in Range(gossip.agents) :
             Taken.sender_id \notin DOMAIN agent[b].known_agents =>
                 LET anomaly == Taken.content
                     others  == Range(gossip.agents) \ {b}
                 IN  /\ anomaly.id \in DOMAIN agent'[b].detected_anomalies
                     /\ agent'[b].detected_anomalies[anomaly.id] = anomaly
                     /\ IF "severity" \in DOMAIN anomaly /\ anomaly.severity > 70
                        THEN /\ \E ref \in ProposedBy(heap', b) \ ProposedBy(heap, b) :
                                   /\ ProposedBy(heap', b) = ProposedBy(heap, b) \cup {ref}
                                   /\ heap'[ref].votes = <<>> => heap'[ref].status = "PROPOSED"
                                   /\ heap'[ref].status \in {"PROPOSED", "APPROVED", "REJECTED"}
                             /\ {glast'.calls[i].to : i \in ProposalCalls(b)} = others
                             /\ Cardinality(ProposalCalls(b)) = Cardinality(others)
                        ELSE /\ ProposedBy(heap', b) = ProposedBy(heap, b)
                             /\ ProposalCalls(b) = {}
    ]_vars

\* C29 witness: A and B have taken in an anomaly of severity 71 and one of
\* severity 70; A has proposed one rule, which B was handed.
C29_Witness ==
    /\ glast.op = "process_remote_message"
    /\ gossip.agents = <<"A", "B">>
    /\ \E i \in 1..Len(agent["A"].message_history) :
          LET m == agent["A"].message_history[i]
          IN  m.msg_type = "ANOMALY_DETECTED" /\ Severity(m.content) = 71
    /\ \E i \in 1..Len(agent["A"].message_history) :
          LET m == agent["A"].message_history[i]
          IN  m.msg_type = "ANOMALY_DETECTED" /\ Severity(m.content) = 70
    /\ Cardinality(ProposedBy(heap, "A")) = 1
    /\ \E i \in 1..Len(agent["B"].message_history) :
          LET m == agent["B"].message_history[i]
          IN  m.msg_type = "RULE_PROPOSAL" /\ m.sender_id = "A"

(***************************************************************************)
(* One broadcast call over a lossy in-process network of three agents.     *)
(* The THREAT message is one whose content has no "data", so the branch    *)
(* of the receiver raises KeyError.                                        *)
(***************************************************************************)
\* gossip.broadcast(sender.create_message(content, msg_type)), as in test_message_broadcast
BroadcastAs(a, msg_type, drop) ==
    /\ ncalls < MaxCalls
    /\ a \in Range(gossip.agents)
    /\ LET w == World(drop, <<>>)
           message == create_message(w, a, [test |-> "data"], msg_type)
       IN  Commit(broadcast(w, message), "broadcast", a, message.message_id, TRUE)

InitBroadcast ==
    /\ consensus = ConsensusInit("MAJORITY")
    /\ clast = NoCall
    /\ NetworkInit(<<"A", "B", "C">>, {50})

\* broadcast calls per behaviour
MaxBroadcasts == 2

\* every outcome of the random draws of a proposal of agent a and of the votes it
\* sets off: an agent that the proposal does not reach sends no vote, so no draw
\* is made for its deliveries
ProposalDrops(a) ==
    LET registered == Range(gossip.agents)
    IN  {drop \in SUBSET {p \in registered \X registered : p[1] # p[2]} :
            \A p \in drop : p[1] # a => <<a, p[1]>> \notin drop}

NextBroadcast ==
    /\ ncalls < MaxBroadcasts
    /\ \/ \E a \in AgentIds, msg_type \in {"TEST_MESSAGE", "THREAT"} :
            \E drop \in SUBSET ({a} \X (Range(gossip.agents) \ {a})) :
               BroadcastAs(a, msg_type, drop)
       \/ \E drop \in ProposalDrops("A") : ProposeRule("A", "r1", drop)

SpecBroadcast == InitBroadcast /\ [][NextBroadcast]_vars

\* the delivery attempts that the broadcast call numbered `call` has logged
AttemptsOf(log, call) == {i \in 1..Len(log.attempts) : log.attempts[i].call = call}

\* the receive_message invocations of agent b with the message of broadcast call s
InvocationsOf(log, s, b) ==
    {i \in 1..Len(log.calls) :
        /\ log.calls[i].to = b
        /\ log.calls[i].message_id = s.message_id
        /\ log.calls[i].depth = s.depth}

\* C30: one broadcast call makes exactly one delivery attempt per registered
\* agent other than the sender and never retries: for each such agent either
\* its receive_message is invoked once or delivery_failures grows by one
\* (both when the handler raises); messages_sent grows by exactly one per
\* call, and the message is in the dedup cache whatever the deliveries did.
C30_OneAttemptPerAgent ==
    [][(ncalls' = ncalls + 1 /\ glast'.op \in {"broadcast", "propose_rule"}) =>
         LET log    == glast'
             failed == {i \in 1..Len(log.attempts) : log.attempts[i].outcome # "received"}
             before == gossip.stats
             after  == gossip'.stats
         IN  /\ log.sends # <<>>
             /\ log.sends[1].message_id = log.message_id /\ log.sends[1].depth = 1
             /\ after.messages_sent = before.messages_sent + Len(log.sends)
             /\ after.delivery_failures = before.delivery_failures + Cardinality(failed)
             /\ Len(log.calls) = Len(log.attempts) -
                    Cardinality({i \in failed : log.attempts[i].outcome = "dropped"})
             /\ \A k \in 1..Len(log.sends) :
                    LET s      == log.sends[k]
                        others == Range(gossip.agents) \ {s.sender_id}
                    IN  /\ s.message_id \in DOMAIN gossip'.message_cache
                        /\ {log.attempts[i].to : i \in AttemptsOf(log, s.call)} = others
                        /\ Cardinality(AttemptsOf(log, s.call)) = Cardinality(others)
                        /\ \A i \in AttemptsOf(log, s.call) :
                               Cardinality(InvocationsOf(log, s, log.attempts[i].to)) =
                                   IF log.attempts[i].outcome = "dropped" THEN 0 ELSE 1
    ]_vars

\* C30 witness: A has broadcast a THREAT without "data" to B and C; the delivery
\* to one of them was dropped and the handler of the other raised, which makes
\* one invocation, two failures and one message sent, and the message is cached.
C30_Witness ==
    /\ glast.op = "broadcast" /\ glast.by = "A"
    /\ Len(glast.sends) = 1 /\ Len(glast.attempts) = 2 /\ Len(glast.calls) = 1
    /\ {glast.attempts[i].outcome : i \in 1..2} = {"raised", "dropped"}
    /\ gossip.stats.messages_sent = 1
    /\ gossip.stats.delivery_failures = 2
    /\ glast.message_id \in DOMAIN gossip.message_cache

(***************************************************************************)
(* The connection threads with the handler entered and left in two steps:  *)
(* between the two the thread is inside receive_message of the agent the   *)
(* loop has reached.                                                       *)
(***************************************************************************)
\* the connection threads of this scenario
HandlerThreads == {"T1", "T2"}

NextHandlers ==
    \/ \E t \in HandlerThreads, ts \in 0..MaxTime :
         \E data \in {m \in RemoteMessages(ts) : m.msg_type # "THREAT"} :
            HandleClient(t, data)
    \/ \E t \in HandlerThreads : RemoteAcquire(t)
    \/ \E t \in HandlerThreads : RemoteCheck(t)
    \/ \E t \in HandlerThreads : RemoteInsert(t)
    \/ \E t \in HandlerThreads : RemoteRelease(t)
    \/ \E t \in HandlerThreads : RemoteStatsRead(t)
    \/ \E t \in HandlerThreads : RemoteStatsWrite(t)
    \/ \E t \in HandlerThreads : RemoteEnter(t)
    \/ \E t \in HandlerThreads : RemoteReturn(t)

SpecHandlers == InitRemote /\ [][NextHandlers]_vars

\* the agent whose receive_message thread t is inside
InHandlerOf(t) == gossip.agents[threads[t].next]

\* C31: no two receive_message invocations run at the same time on one agent:
\* two threads that are inside a handler are inside handlers of different agents.
C31_HandlersSerialized ==
    \A t1, t2 \in DOMAIN threads :
        (t1 # t2 /\ threads[t1].pc = "handler" /\ threads[t2].pc = "handler") =>
            InHandlerOf(t1) # InHandlerOf(t2)

(***************************************************************************)
(* Consensus.register_vote called from two threads.  The Consensus object  *)
(* has no lock; a step is what a thread does between two points where the  *)
(* interpreter can switch threads: the membership test, the creation of    *)
(* the rule's table, the store of the vote.                                *)
(***************************************************************************)
\* the agents, the GossipProtocol object and the records of their calls
agent_vars == <<agent, gossip, heap, forwarded, now, recv, glast, ncalls>>

\* the threads that call register_vote
VoteThreads == {"T1", "T2"}

\* one step of thread t in register_vote that leaves the Consensus object as it is
VoteStep(t, pc) ==
    /\ threads' = [threads EXCEPT ![t].pc = pc]
    /\ UNCHANGED <<consensus_vars, agent_vars, engine_vars, crypto, wire, nodes, service,
                   cache_lock>>

\* thread t calls register_vote(rule_id, agent_id, vote)
VoteCall(t, rule_id, agent_id, vote) ==
    /\ t \notin DOMAIN threads
    /\ threads' = DictSet(threads, t, [pc |-> "test", rule_id |-> rule_id,
                                       agent_id |-> agent_id, vote |-> vote])
    /\ UNCHANGED <<consensus_vars, agent_vars, engine_vars, crypto, wire, nodes, service,
                   cache_lock>>

\* `if rule_id not in self.votes:`
VoteTest(t) ==
    /\ t \in DOMAIN threads /\ threads[t].pc = "test"
    /\ IF threads[t].rule_id \notin DOMAIN consensus.votes
       THEN VoteStep(t, "create") ELSE VoteStep(t, "store")

\* `self.votes[rule_id] = {}` and `self.rule_status[rule_id] = "VOTING"`
VoteCreate(t) ==
    /\ t \in DOMAIN threads /\ threads[t].pc = "create"
    /\ consensus' = [consensus EXCEPT
                         !.votes = DictSet(@, threads[t].rule_id, EmptyDict),
                         !.rule_status = DictSet(@, threads[t].rule_id, "VOTING")]
    /\ threads' = [threads EXCEPT ![t].pc = "store"]
    /\ UNCHANGED <<clast, agent_vars, engine_vars, crypto, wire, nodes, service, cache_lock>>

\* `self.votes[rule_id][agent_id] = {"vote": vote, "reputation": 50}`
VoteStore(t) ==
    /\ t \in DOMAIN threads /\ threads[t].pc = "store"
    /\ LET th == threads[t]
       IN  consensus' = [consensus EXCEPT
                             !.votes[th.rule_id] =
                                 DictSet(@, th.agent_id,
                                         [vote |-> th.vote, reputation |-> DefaultReputation])]
    /\ threads' = [threads EXCEPT ![t].pc = "done"]
    /\ UNCHANGED <<clast, agent_vars, engine_vars, crypto, wire, nodes, service, cache_lock>>

InitVoters ==
    /\ consensus = ConsensusInit("MAJORITY")
    /\ clast = NoCall
    /\ NetworkInit(<<>>, {100})

NextVoters ==
    \/ \E t \in VoteThreads, rule_id \in RuleIds, agent_id \in Voters, vote \in VoteChoices :
          VoteCall(t, rule_id, agent_id, vote)
    \/ \E t \in VoteThreads : VoteTest(t)
    \/ \E t \in VoteThreads : VoteCreate(t)
    \/ \E t \in VoteThreads : VoteStore(t)

SpecVoters == InitVoters /\ [][NextVoters]_vars

\* C32: the read-modify-writes of the vote tables behave as some serial order:
\* once register_vote calls of different voters have returned, the vote of
\* each of them is recorded.
C32_ConcurrentVotesRecorded ==
    (/\ DOMAIN threads = VoteThreads
     /\ \A t \in VoteThreads : threads[t].pc = "done"
     /\ threads["T1"].agent_id # threads["T2"].agent_id) =>
        \A t \in VoteThreads :
            /\ threads[t].rule_id \in DOMAIN consensus.votes
            /\ threads[t].agent_id \in DOMAIN consensus.votes[threads[t].rule_id]

(***************************************************************************)
(* The background loops: GossipProtocol._cleanup_thread and _periodic_sync *)
(* (started by start(), ended by stop()) and the accept loop               *)
(* NetworkTransport._handle_connections (start_server(), stop()).  A loop  *)
(* is at "test" (the `while ...running` test), asleep or blocked, or has   *)
(* left the loop ("exit").                                                 *)
(***************************************************************************)
\* connections accepted per behaviour
MaxConnections == 2

\* `count=3` of get_random_peers and `min(3, len(self.agents))` of _periodic_sync
SyncFanout == 3

\* the names bound in module gossip_protocol: its imports (lines 1-5), its
\* logger and its class
GossipNames ==
    {"random", "logging", "time", "threading", "Dict", "List", "Optional", "Set",
     "Callable", "logger", "GossipProtocol"}

\* the methods of BaseAgent
AgentMethods ==
    {"connect_to_network", "detect_threat", "propose_rule", "vote_for_rule", "apply_rule",
     "receive_message", "create_message", "announce_presence", "update_reputation",
     "get_timestamp", "create_host_fingerprint", "update_host_profile",
     "check_for_anomalies", "propose_rule_for_anomaly", "export_logs"}

\* the registered agents of S in the order of the registry
SeqOf(w, S) == SelectSeq(w.gossip.agents, LAMBDA a : a \in S)

\* get_random_peers: every list the call can return, as a set of peers
get_random_peers(registered, agent_id) ==
    LET peers == registered \ {agent_id}
    IN  IF Cardinality(peers) <= SyncFanout THEN {peers}
        ELSE {P \in SUBSET peers : Cardinality(P) = SyncFanout}

\* the body of the `try` of gossip_sync for one peer: `Message(...)` raises
\* NameError when the module has not bound the name, `agent.sign_message`
\* raises AttributeError when the agent has no such method; either is caught
\* by `except Exception` and nothing is sent
sync_request(w, agent_id, peer_id) ==
    IF "Message" \notin GossipNames \/ "sign_message" \notin AgentMethods THEN w
    ELSE send_message(w, create_message(w, agent_id, [type |-> "SYNC_REQUEST"], "SYNC"),
                      peer_id).w

RECURSIVE sync_loop(_, _, _)
\* `for peer_id in peers` of gossip_sync
sync_loop(w, agent_id, peers) ==
    IF peers = <<>> THEN w
    ELSE sync_loop(sync_request(w, agent_id, Head(peers)), agent_id, Tail(peers))

\* GossipProtocol.gossip_sync with the peers that get_random_peers has returned
gossip_sync(w, agent_id, peers) ==
    IF agent_id \notin Range(w.gossip.agents) \/ peers = {} THEN w
    ELSE sync_loop(w, agent_id, SeqOf(w, peers))

RECURSIVE sync_round(_, _, _)
\* `for agent_id in sync_agents` of _periodic_sync
sync_round(w, sync_agents, pick) ==
    IF sync_agents = <<>> THEN w
    ELSE sync_round(gossip_sync(w, Head(sync_agents), pick[Head(sync_agents)]),
                    Tail(sync_agents), pick)

\* a step that changes the loops only
ServiceStep(next) ==
    /\ service' = next
    /\ UNCHANGED <<consensus_vars, agent_vars, thread_vars, engine_vars, crypto, wire, nodes>>

\* GossipProtocol.start
GossipStart ==
    /\ ~service.running /\ ~service.stopped
    /\ ServiceStep([service EXCEPT !.running = TRUE, !.sweep = "test", !.sync = "test"])

\* GossipProtocol.stop
GossipStop ==
    /\ service.running
    /\ ServiceStep([service EXCEPT !.running = FALSE, !.stopped = TRUE])

\* `while self.running:` of _cleanup_thread, and time.sleep(60) entered
SweepTest ==
    /\ service.sweep = "test"
    /\ IF service.running
       THEN ServiceStep([service EXCEPT
                !.sweep = "sleep",
                !.late_sleeps = IF "sweep" \in service.woke_late THEN @ + 1 ELSE @])
       ELSE ServiceStep([service EXCEPT !.sweep = "exit"])

\* time.sleep(60) returns and _cleanup_message_cache runs
SweepWake ==
    /\ service.sweep = "sleep"
    /\ gossip' = [gossip EXCEPT !.message_cache = cleanup_message_cache(@, now, MessageTtl)]
    /\ service' = [service EXCEPT
                       !.sweep = "test",
                       !.woke_late = IF service.stopped THEN @ \cup {"sweep"} ELSE @]
    /\ UNCHANGED <<agent, heap, forwarded, now, recv, glast, ncalls, consensus_vars,
                   thread_vars, engine_vars, crypto, wire, nodes>>

\* `while self.running:` of _periodic_sync, and time.sleep(self.sync_interval) entered
SyncTest ==
    /\ service.sync = "test"
    /\ IF service.running
       THEN ServiceStep([service EXCEPT
                !.sync = "sleep",
                !.late_sleeps = IF "sync" \in service.woke_late THEN @ + 1 ELSE @])
       ELSE ServiceStep([service EXCEPT !.sync = "exit"])

\* time.sleep returns and one round of _periodic_sync runs: random.sample has
\* drawn sync_agents, get_random_peers has drawn pick[a] for each of them
SyncWake(sync_agents, pick) ==
    /\ service.sync = "sleep"
    /\ LET w == sync_round(World({}, <<>>), SeqOf(World({}, <<>>), sync_agents), pick)
       IN  /\ agent' = w.agent
           /\ gossip' = w.gossip
           /\ heap' = w.heap
           /\ forwarded' = w.forwarded
           /\ recv' = w.recv
    /\ service' = [service EXCEPT
                       !.sync = "test",
                       !.round = [selected |-> sync_agents, peers |-> pick],
                       !.woke_late = IF service.stopped THEN @ \cup {"sync"} ELSE @]
    /\ UNCHANGED <<now, glast, ncalls, consensus_vars, thread_vars, engine_vars, crypto,
                   wire, nodes>>

\* every outcome of the random draws of one round
SyncDraws ==
    LET registered == Range(gossip.agents)
        size == IF Cardinality(registered) < SyncFanout THEN Cardinality(registered)
                ELSE SyncFanout
        picks(S) == {f \in [S -> SUBSET registered] :
                        \A a \in S : f[a] \in get_random_peers(registered, a)}
    IN  UNION {{[selected |-> S, peers |-> pick] : pick \in picks(S)} :
               S \in {T \in SUBSET registered : Cardinality(T) = size}}

\* NetworkTransport.start_server
StartServer ==
    /\ ~service.server_running /\ ~service.server_stopped
    /\ ServiceStep([service EXCEPT !.server_running = TRUE, !.socket = "listening",
                                   !.accept = "test"])

\* NetworkTransport.stop
TransportStop ==
    /\ service.server_running
    /\ ServiceStep([service EXCEPT !.server_running = FALSE, !.server_stopped = TRUE,
                                   !.socket = "closed"])

\* `while self.running:` of _handle_connections
AcceptTest ==
    /\ service.accept = "test"
    /\ ServiceStep([service EXCEPT !.accept = IF service.server_running THEN "call"
                                              ELSE "exit"])

\* `self.server_socket.accept()` is called: it blocks on a listening socket and
\* raises OSError on a closed one, which the `except` of the loop swallows
AcceptCall ==
    /\ service.accept = "call"
    /\ IF service.socket = "listening"
       THEN ServiceStep([service EXCEPT
                !.accept = "blocked",
                !.late_sleeps = IF "accept" \in service.woke_late THEN @ + 1 ELSE @])
       ELSE ServiceStep([service EXCEPT
                !.accept = "test",
                !.woke_late = IF service.server_stopped THEN @ \cup {"accept"} ELSE @])

\* accept() returns a connection.  A thread that was blocked in accept() when
\* stop() closed the socket is not woken by the close on every platform: where
\* it is not, it returns with the next connection.
AcceptReturn ==
    /\ service.accept = "blocked"
    /\ service.spawned < MaxConnections
    /\ ServiceStep([service EXCEPT
           !.accept = "spawn",
           !.woke_late = IF service.server_stopped THEN @ \cup {"accept"} ELSE @])

\* accept() raises because stop() has closed the socket under it
AcceptRaise ==
    /\ service.accept = "blocked"
    /\ service.socket = "closed"
    /\ ServiceStep([service EXCEPT !.accept = "test", !.woke_late = @ \cup {"accept"}])

\* threading.Thread(target=self._handle_client, ...).start()
AcceptSpawn ==
    /\ service.accept = "spawn"
    /\ ServiceStep([service EXCEPT
           !.accept = "test",
           !.spawned = @ + 1,
           !.late_spawns = IF service.server_stopped THEN @ + 1 ELSE @])

InitService ==
    /\ consensus = ConsensusInit("MAJORITY")
    /\ clast = NoCall
    /\ \E registered \in {<<"A">>, <<"A", "B", "C">>} : NetworkInit(registered, {100})

NextService ==
    \/ GossipStart
    \/ GossipStop
    \/ SweepTest
    \/ SweepWake
    \/ SyncTest
    \/ \E draw \in SyncDraws : SyncWake(draw.selected, draw.peers)
    \/ StartServer
    \/ TransportStop
    \/ AcceptTest
    \/ AcceptCall
    \/ AcceptReturn
    \/ AcceptRaise
    \/ AcceptSpawn
    \/ ncalls = 0 /\ BroadcastTest("A", {})
    \/ Tick

SpecService == InitService /\ [][NextService]_vars

\* C33: after stop() each loop ends at its next wake-up: a loop that has woken
\* up since stop() starts no further sleep or accept and is on its way to the
\* exit, and no connection thread is started after stop().
C33_LoopsEndAtNextWakeUp ==
    /\ service.late_sleeps = 0
    /\ service.late_spawns = 0
    /\ "sweep" \in service.woke_late => service.sweep \in {"test", "exit"}
    /\ "sync" \in service.woke_late => service.sync \in {"test", "exit"}
    /\ "accept" \in service.woke_late => service.accept \in {"spawn", "test", "exit"}

\* the part of C33 that is about the loops of the GossipProtocol
SleepersEndAtNextWakeUp ==
    /\ service.late_sleeps = 0
    /\ "sweep" \in service.woke_late => service.sweep \in {"test", "exit"}
    /\ "sync" \in service.woke_late => service.sync \in {"test", "exit"}

\* C34: a round of the periodic sync selects at most 3 registered agents, and
\* each selected agent sends one sync request to each of its at most 3 drawn
\* peers, which are registered, distinct and not the agent itself.
C34_SyncRoundSendsRequests ==
    [][(service.sync = "sleep" /\ service'.sync = "test") =>
         LET round      == service'.round
             registered == Range(gossip.agents)
             requests   == [a \in round.selected |-> Cardinality(round.peers[a])]
         IN  /\ round.selected \subseteq registered
             /\ Cardinality(round.selected) <= 3
             /\ \A a \in round.selected :
                    /\ round.peers[a] \subseteq registered \ {a}
                    /\ Cardinality(round.peers[a]) <= 3
                    /\ \A p \in round.peers[a] :
                           \E i \in 1..Len(agent'[p].message_history) :
                               /\ agent'[p].message_history[i].msg_type = "SYNC"
                               /\ agent'[p].message_history[i].sender_id = a
             /\ gossip'.stats.messages_sent =
                    gossip.stats.messages_sent + SumOver(requests, round.selected)
    ]_vars

(***************************************************************************)
(* Messages that the agents of another node create and send over, with a   *)
(* record of the Message objects that have arrived so far.                 *)
(***************************************************************************)
\* NetworkTransport._handle_client: one received message handed over; wire keeps
\* the Message object and the objects that arrived before it
RemoteArrival(data) ==
    /\ ncalls < MaxCalls
    /\ LET d == from_dict(World({}, <<>>), data)
           w == process_remote_message(d.w, d.m)
       IN  /\ agent' = w.agent
           /\ gossip' = w.gossip
           /\ heap' = w.heap
           /\ forwarded' = w.forwarded
           /\ recv' = w.recv
           /\ glast' = [op |-> "process_remote_message", by |-> data.sender_id,
                        message_id |-> data.message_id,
                        was_cached |-> data.message_id \in DOMAIN gossip.message_cache,
                        calls |-> w.calls, sends |-> w.sends, attempts |-> w.attempts,
                        ret |-> TRUE]
           /\ wire' = [op |-> "arrival", message |-> d.m,
                       before |-> IF wire.op = "arrival"
                                  THEN wire.before \cup {wire.message} ELSE {}]
    /\ ncalls' = ncalls + 1
    /\ UNCHANGED <<now, consensus_vars, thread_vars, engine_vars, crypto, nodes, service>>

NextIds ==
    \/ \E t \in 0..now : \E data \in RemoteMessages(t) : RemoteArrival(data)
    \/ Tick

SpecIds == InitRemote /\ [][NextIds]_vars

\* C35: message_id identifies a message: a message that differs from every
\* message that arrived before (in content, type or timestamp, from the same
\* sender in the same second too) has an id of its own, and deduplication
\* does not discard it.
C35_DistinctMessagesDistinctIds ==
    [][(ncalls' = ncalls + 1 /\ wire'.op = "arrival"
            /\ wire'.message \notin wire'.before) =>
           /\ \A m \in wire'.before : m.message_id # wire'.message.message_id
           /\ ~glast'.was_cached
           /\ \A b \in Range(gossip.agents) :
                  \E i \in 1..Len(glast'.calls) : glast'.calls[i].to = b
    ]_vars

\* C36: the coordinator recomputes on every call and keeps no decision: a
\* check_consensus call for a rule it has reported APPROVED, made when a
\* quorum of votes is recorded and no recorded vote approves any more, returns
\* REJECTED, and get_rule_status reports REJECTED from then on.
C36_DecisionIsRecomputed ==
    [][(/\ clast'.op = "check_consensus"
        /\ get_rule_status(consensus, clast'.rule_id) = "APPROVED"
        /\ QuorumReached(consensus.votes[clast'.rule_id], clast'.total_agents)
        /\ Approvers(consensus.votes[clast'.rule_id]) = {}) =>
           /\ clast'.status = "REJECTED"
           /\ get_rule_status(consensus', clast'.rule_id) = "REJECTED"
    ]_vars

\* C36 witness: r1 was APPROVED when check_consensus was called; since then
\* voters have changed their votes, the call has returned REJECTED and that is
\* what get_rule_status reports now.
C36_Witness ==
    /\ clast.op = "check_consensus"
    /\ clast.was = "APPROVED"
    /\ clast.status = "REJECTED"
    /\ get_rule_status(consensus, clast.rule_id) = "REJECTED"

(***************************************************************************)
(* Rule state across the agents of one in-process GossipProtocol.          *)
(***************************************************************************)
\* the agents whose receive_message ran during the call that glast records
ReceiversOf(call) == {call.calls[i].to : i \in 1..Len(call.calls)}

\* C37 (as claimed): a rule an agent holds keeps its status and its vote list
\* over every call in which the agent neither processes a message nor proposes
\* a rule itself, whatever RULE_PROPOSAL or VOTE the other agents process.
C37_RuleStateIsolated ==
    [][\A b \in AgentIds : \A rule_id \in DOMAIN agent[b].proposed_rules :
          (/\ b \notin ReceiversOf(glast')
           /\ ~(glast'.op = "propose_rule" /\ glast'.by = b)) =>
              /\ rule_id \in DOMAIN agent'[b].proposed_rules
              /\ HeldRule(agent', heap', b, rule_id).status =
                     HeldRule(agent, heap, b, rule_id).status
              /\ HeldRule(agent', heap', b, rule_id).votes =
                     HeldRule(agent, heap, b, rule_id).votes
    ]_vars

\* C38 (as claimed): an agent's list of applied rules never holds the same rule
\* id twice, whatever votes the agent has received.
C38_AppliedAtMostOnce ==
    LET ag == nodes["N1"].agent["A"]
        hp == nodes["N1"].heap
    IN  \A i \in 1..Len(ag.rules), j \in 1..Len(ag.rules) :
            hp[ag.rules[i]].id = hp[ag.rules[j]].id => i = j

(***************************************************************************)
(* Two processes that relay to each other: each has one agent, a           *)
(* GossipProtocol and a NetworkTransport whose only known node is the      *)
(* other process.  wire.inflight[n] holds the pickled dicts sent to n that *)
(* its _handle_client has not taken yet.                                   *)
(***************************************************************************)
\* the node registered in known_nodes of process n
RelayPeer(n) == IF n = "N1" THEN "N2" ELSE "N1"

\* the dicts process n handed to its transport during the call that led to w2
SentBy(n, w2) == SubSeq(w2.forwarded, Len(nodes[n].forwarded) + 1, Len(w2.forwarded))

\* the call of process n ends in w2: what it sent is in flight to the peer
RelayCommit(n, w2, op, taken, message_id, msg_type, inflight) ==
    /\ nodes' = [nodes EXCEPT ![n] = [w2 EXCEPT !.calls = <<>>, !.sends = <<>>,
                                               !.attempts = <<>>, !.ids = <<>>]]
    /\ wire' = [op |-> op, node |-> n, taken |-> taken, message_id |-> message_id,
                msg_type |-> msg_type, connected |-> nodes[n].gossip.transport,
                was_cached |-> message_id \in DOMAIN nodes[n].gossip.message_cache,
                sent |-> SentBy(n, w2), sends |-> w2.sends, calls |-> w2.calls,
                inflight |-> [inflight EXCEPT ![RelayPeer(n)] = @ \o SentBy(n, w2)]]
    /\ UNCHANGED <<consensus_vars, network_vars, engine_vars, crypto, service>>

\* the broadcast calls made so far, in both processes
RelayCalls == SumOver([n \in Nodes |-> nodes[n].gossip.stats.messages_sent], Nodes)

\* GossipProtocol.connect_to_network_transport, the peer registered with the transport
ConnectToNetworkTransport(n) ==
    /\ ~nodes[n].gossip.transport
    /\ RelayCommit(n, [nodes[n] EXCEPT !.gossip.transport = TRUE],
                   "connect_to_network_transport", NoWire, MessageId("-", 0), "None",
                   wire.inflight)

\* gossip.broadcast(agent.create_message(content, "TEST_MESSAGE")) in process n
RelayBroadcast(n) ==
    /\ RelayCalls < MaxBroadcasts
    /\ LET message == create_message(nodes[n], NodeAgent(n), [test |-> "data"],
                                     "TEST_MESSAGE")
       IN  RelayCommit(n, broadcast(nodes[n], message), "broadcast", NoWire,
                       message.message_id, "TEST_MESSAGE", wire.inflight)

\* agent.propose_rule(rule_data) in process n
RelayProposeRule(n, rule_id) ==
    /\ RelayCalls < MaxBroadcasts
    /\ RelayCommit(n, propose_rule([nodes[n] EXCEPT !.ids = <<rule_id>>], NodeAgent(n),
                                   [type |-> "FIREWALL", action |-> "BLOCK", duration |-> 1],
                                   "None"),
                   "propose_rule", NoWire, MessageId(NodeAgent(n), nodes[n].now),
                   "RULE_PROPOSAL", wire.inflight)

\* NetworkTransport._handle_client of process n takes the next dict sent to it
RelayTake(n) ==
    /\ wire.inflight[n] # <<>>
    /\ LET data == Head(wire.inflight[n])
           d    == from_dict(nodes[n], data)
       IN  RelayCommit(n, process_remote_message(d.w, d.m), "process_remote_message",
                       data, data.message_id, data.msg_type,
                       [wire.inflight EXCEPT ![n] = Tail(@)])

\* a second passes in both processes
RelayTick ==
    /\ \A n \in Nodes : nodes[n].now < MaxTime
    /\ nodes' = [n \in Nodes |-> [nodes[n] EXCEPT !.now = @ + 1]]
    /\ UNCHANGED <<consensus_vars, network_vars, engine_vars, crypto, wire, service>>

InitRelay ==
    /\ consensus = ConsensusInit("MAJORITY")
    /\ clast = NoCall
    /\ agent = [a \in AgentIds |-> AgentInit]
    /\ gossip = GossipInit(<<>>, 100)
    /\ heap = <<>>
    /\ forwarded = <<>>
    /\ now = 0
    /\ recv = EmptyDict
    /\ glast = [op |-> "none", by |-> "-", message_id |-> <<"-", 0>>, was_cached |-> FALSE,
                calls |-> <<>>, sends |-> <<>>, attempts |-> <<>>, ret |-> TRUE]
    /\ ncalls = 0
    /\ threads = EmptyDict
    /\ cache_lock = "free"
    /\ engine = RuleEngineInit
    /\ elast = NoEngineCall
    /\ crypto = NoCryptoCall
    /\ wire = [op |-> "none", inflight |-> [n \in Nodes |-> <<>>], sent |-> <<>>,
               sends |-> <<>>, calls |-> <<>>, taken |-> NoWire, connected |-> FALSE,
               was_cached |-> FALSE, node |-> "N1", message_id |-> MessageId("-", 0),
               msg_type |-> "None"]
    /\ nodes = [n \in Nodes |-> NodeInit(n)]
    /\ service = ServiceInit

NextRelay ==
    \/ \E n \in Nodes : ConnectToNetworkTransport(n)
    \/ \E n \in Nodes : RelayBroadcast(n)
    \/ \E n \in Nodes : RelayProposeRule(n, "r1")
    \/ \E n \in Nodes : RelayTake(n)
    \/ RelayTick

SpecRelay == InitRelay /\ [][NextRelay]_vars

\* how many of the dicts in seq carry this message id and message type
Copies(seq, message_id, msg_type) ==
    Cardinality({i \in 1..Len(seq) : /\ seq[i].message_id = message_id
                                     /\ seq[i].msg_type = msg_type})

\* C39: a message that came in through process_remote_message reaches the
\* local agents only and is not handed to the transport: the only dicts the
\* call sends are those of the broadcasts made inside the agents' handlers, one
\* each.  A message that came in through broadcast is handed to the transport
\* exactly once when a transport is connected and not at all otherwise.  So
\* no dict is sent back to the process that sent it, and what is in flight to
\* a process was broadcast by the agent of the other process.
C39_RemoteIsNotRelayed ==
    /\ wire.op = "process_remote_message" =>
           /\ \A i \in 1..Len(wire.sent) : wire.sent[i] # wire.taken
           /\ Len(wire.sent) = IF wire.connected THEN Len(wire.sends) ELSE 0
           /\ \A i \in 1..Len(wire.sent) :
                  /\ wire.sent[i].sender_id = NodeAgent(wire.node)
                  /\ wire.sent[i].message_id = wire.sends[i].message_id
           /\ \A i \in 1..Len(wire.calls) :
                  wire.calls[i].to \in Range(nodes[wire.node].gossip.agents)
    /\ wire.op \in {"broadcast", "propose_rule"} =>
           /\ Copies(wire.sent, wire.message_id, wire.msg_type) =
                  IF wire.connected THEN 1 ELSE 0
           /\ Len(wire.sent) = IF wire.connected THEN Len(wire.sends) ELSE 0
    /\ wire.op # "none" =>
           \A n \in Nodes : \A i \in 1..Len(wire.inflight[n]) :
               /\ wire.inflight[n][i].sender_id = NodeAgent(RelayPeer(n))
               /\ \A j \in 1..Len(nodes[n].forwarded) :
                      nodes[n].forwarded[j] # wire.inflight[n][i]

\* C39 witness: process N2 has taken the rule proposal that A broadcast in N1;
\* its agent B has voted from inside the handler, and that vote is the one dict
\* N2 sent; the proposal has not gone back, and N1 sent it once.
C39_Witness ==
    /\ wire.op = "process_remote_message"
    /\ wire.node = "N2"
    /\ wire.msg_type = "RULE_PROPOSAL"
    /\ ~wire.was_cached
    /\ Len(wire.calls) = 1
    /\ Len(wire.sent) = 1
    /\ wire.sent[1].msg_type = "VOTE"
    /\ wire.inflight["N1"] = wire.sent
    /\ Copies(nodes["N1"].forwarded, wire.message_id, "RULE_PROPOSAL") = 1

\* C40: every rule id in active_rules is a key of rules, in every state the
\* engine reaches by register_rule, apply_rule and check_rule_applicability
\* calls; and a check_rule_applicability call only removes entries whose
\* expiration has passed: it adds no active entry, leaves the expiration of
\* every entry it keeps, and leaves rules and every registered rule dict as
\* they were.
C40_ActiveRulesAreRegistered ==
    [][/\ DOMAIN engine.active_rules \subseteq DOMAIN engine.rules
       /\ DOMAIN engine'.active_rules \subseteq DOMAIN engine'.rules
       /\ \A target \in Targets \cup {"None"} :
            CheckRuleApplicability(target) =>
                /\ DOMAIN engine'.active_rules \subseteq DOMAIN engine.active_rules
                /\ \A id \in (DOMAIN engine.active_rules) \ DOMAIN engine'.active_rules :
                       engine.active_rules[id] < now
                /\ \A id \in DOMAIN engine'.active_rules :
                       engine'.active_rules[id] = engine.active_rules[id]
                /\ engine'.rules = engine.rules
                /\ heap' = heap
    ]_vars

\* C40 witness: a check_rule_applicability call has removed an expired entry
\* and kept another one, and both rules are still registered.
C40_Witness ==
    /\ elast.op = "check_rule_applicability"
    /\ elast.expired # {}
    /\ DOMAIN engine.active_rules # {}
    /\ elast.expired \cup DOMAIN engine.active_rules \subseteq DOMAIN engine.rules

====
